---- MODULE Spec2Model ----
(***************************************************************************)
(* A model of the api-extractor graph builder (AstSymbolTable) of          *)
(* web-build-tools.  The table's four caches are the state; each public    *)
(* method is one action whose effect is computed by operators that follow  *)
(* the method's code statement by statement, exceptions included: a throw  *)
(* leaves every mutation made before it in place.  Beside the table stand  *)
(* the canonical references of ApiMethod, Excerpt, and the Extractor with  *)
(* generateFilePathsForAnalysis and processProject, each with a            *)
(* specification of its own over the same variables.                       *)
(***************************************************************************)
EXTENDS Integers, Sequences, FiniteSets, TLC

None == "none"

\* the longest sequence of calls explored
MaxCalls == 3

(***************************************************************************)
(* The compiler's program: syntax nodes and symbols.  It is fixed input    *)
(* that the table only reads.                                              *)
(*                                                                         *)
(*   index.d.ts (the package)                                              *)
(*     class C<T> { /** {Helper} */ foo(h: Helper); static foo();          *)
(*                  foo(t: T, c: C, w: Widget) }                           *)
(*       the static foo is a symbol of its own, also named foo             *)
(*     interface Helper extends C { p: Amb }                               *)
(*     namespace NS { interface M {} }                                     *)
(*     namespace NS { interface M {}  class Inner { m: M; [k]; run() } }   *)
(*     get U()                       (a construct the table does not know) *)
(*     declare module 'legacy' { export interface Ext extends Base { X } } *)
(*   lib1/index.d.ts (external, documented)                                *)
(*     class Widget extends Base {}    class Base {}                       *)
(*   lib2/index.d.ts (external, documented; a second copy of the library)  *)
(*     class Widget extends Base { bar() }      (Base is lib1's)           *)
(*   legacy.d.ts (external, not documented)   interface Amb {}  (ambient)  *)
(*                                            export interface Ext {}      *)
(*     Ext is one symbol with two declarations, the library's coming first *)
(*   semver (external, documented)            the module itself            *)
(***************************************************************************)
Node ==
  [ sfIndex  |-> [kind |-> "SourceFile",           symbol |-> "modIndex", ref |-> None,
                  children |-> <<"nC", "nHelper", "nNS1", "nNS2", "nU", "nExt2">>],
    nC       |-> [kind |-> "ClassDeclaration",     symbol |-> "C",     ref |-> None,
                  children |-> <<"nT", "nDoc", "nFoo1", "nFooStatic", "nFoo2">>],
    nT       |-> [kind |-> "TypeParameter",        symbol |-> "T",     ref |-> None, children |-> <<>>],
    nDoc     |-> [kind |-> "JSDocComment",         symbol |-> None,    ref |-> None, children |-> <<"rDoc">>],
    rDoc     |-> [kind |-> "TypeReference",        symbol |-> None,    ref |-> "Helper", children |-> <<>>],
    nFoo1    |-> [kind |-> "MethodDeclaration",    symbol |-> "foo",   ref |-> None, children |-> <<"rHelper">>],
    rHelper  |-> [kind |-> "TypeReference",        symbol |-> None,    ref |-> "Helper", children |-> <<>>],
    nFooStatic |-> [kind |-> "MethodDeclaration",  symbol |-> "fooStatic", ref |-> None, children |-> <<>>],
    nFoo2    |-> [kind |-> "MethodDeclaration",    symbol |-> "foo",   ref |-> None,
                  children |-> <<"rT", "rSelf", "rWidget">>],
    rT       |-> [kind |-> "TypeReference",        symbol |-> None,    ref |-> "T",  children |-> <<>>],
    rSelf    |-> [kind |-> "TypeReference",        symbol |-> None,    ref |-> "C",  children |-> <<>>],
    rWidget  |-> [kind |-> "TypeReference",        symbol |-> None,    ref |-> "A1", children |-> <<>>],
    nHelper  |-> [kind |-> "InterfaceDeclaration", symbol |-> "Helper", ref |-> None,
                  children |-> <<"rBack", "rAmb">>],
    rBack    |-> [kind |-> "ExpressionWithTypeArguments", symbol |-> None, ref |-> "C", children |-> <<>>],
    rAmb     |-> [kind |-> "TypeReference",        symbol |-> None,    ref |-> "Amb", children |-> <<>>],
    nNS1     |-> [kind |-> "ModuleDeclaration",    symbol |-> "NS",    ref |-> None, children |-> <<"nM1">>],
    nM1      |-> [kind |-> "InterfaceDeclaration", symbol |-> "M",     ref |-> None, children |-> <<>>],
    nNS2     |-> [kind |-> "ModuleDeclaration",    symbol |-> "NS",    ref |-> None,
                  children |-> <<"nM2", "nInner">>],
    nM2      |-> [kind |-> "InterfaceDeclaration", symbol |-> "M",     ref |-> None, children |-> <<>>],
    nInner   |-> [kind |-> "ClassDeclaration",     symbol |-> "Inner", ref |-> None,
                  children |-> <<"rM", "rKey", "nRun">>],
    nRun     |-> [kind |-> "MethodDeclaration",    symbol |-> "run",   ref |-> None, children |-> <<>>],
    rM       |-> [kind |-> "TypeReference",        symbol |-> None,    ref |-> "M",  children |-> <<>>],
    rKey     |-> [kind |-> "ComputedPropertyName", symbol |-> None,    ref |-> "NoIdentifier", children |-> <<>>],
    nU       |-> [kind |-> "GetAccessor",          symbol |-> "U",     ref |-> None, children |-> <<>>],
    nExt2    |-> [kind |-> "InterfaceDeclaration", symbol |-> "Ext",   ref |-> None,
                  children |-> <<"rExt", "nX">>],
    rExt     |-> [kind |-> "ExpressionWithTypeArguments", symbol |-> None, ref |-> "Base", children |-> <<>>],
    nX       |-> [kind |-> "PropertyDeclaration",  symbol |-> "X",     ref |-> None, children |-> <<>>],
    sfLib1   |-> [kind |-> "SourceFile",           symbol |-> "modLib1", ref |-> None,
                  children |-> <<"nW1", "nBase">>],
    nW1      |-> [kind |-> "ClassDeclaration",     symbol |-> "W1",    ref |-> None, children |-> <<"rBase">>],
    rBase    |-> [kind |-> "ExpressionWithTypeArguments", symbol |-> None, ref |-> "Base", children |-> <<>>],
    nBase    |-> [kind |-> "ClassDeclaration",     symbol |-> "Base",  ref |-> None, children |-> <<>>],
    sfLib2   |-> [kind |-> "SourceFile",           symbol |-> "modLib2", ref |-> None, children |-> <<"nW2">>],
    nW2      |-> [kind |-> "ClassDeclaration",     symbol |-> "W2",    ref |-> None,
                  children |-> <<"rBase2", "nBar">>],
    rBase2   |-> [kind |-> "ExpressionWithTypeArguments", symbol |-> None, ref |-> "Base", children |-> <<>>],
    nBar     |-> [kind |-> "MethodDeclaration",    symbol |-> "bar",   ref |-> None, children |-> <<>>],
    sfLegacy |-> [kind |-> "SourceFile",           symbol |-> "modLegacy", ref |-> None,
                  children |-> <<"nAmb", "nExt1">>],
    nExt1    |-> [kind |-> "InterfaceDeclaration", symbol |-> "Ext",   ref |-> None, children |-> <<>>],
    nAmb     |-> [kind |-> "InterfaceDeclaration", symbol |-> "Amb",   ref |-> None, children |-> <<>>],
    sfSemver |-> [kind |-> "SourceFile",           symbol |-> "SV",    ref |-> None, children |-> <<>>] ]

Nodes == DOMAIN Node

\* ts.Node.parent: the node whose children hold n
NodeParent ==
  [n \in Nodes |->
     IF \E p \in Nodes : \E i \in DOMAIN Node[p].children : Node[p].children[i] = n
     THEN CHOOSE p \in Nodes : \E i \in DOMAIN Node[p].children : Node[p].children[i] = n
     ELSE None]

RECURSIVE GetSourceFile(_)
GetSourceFile(n) == IF NodeParent[n] = None THEN n ELSE GetSourceFile(NodeParent[n])

\* ts.Symbol.declarations of the symbols that have an AstSymbol or are filtered
Declarations ==
  [ C |-> <<"nC">>, foo |-> <<"nFoo1", "nFoo2">>, fooStatic |-> <<"nFooStatic">>, Helper |-> <<"nHelper">>,
    NS |-> <<"nNS1", "nNS2">>, M |-> <<"nM1", "nM2">>, Inner |-> <<"nInner">>,
    run |-> <<"nRun">>,
    U |-> <<"nU">>, T |-> <<"nT">>,
    W1 |-> <<"nW1">>, Base |-> <<"nBase">>, W2 |-> <<"nW2">>, bar |-> <<"nBar">>,
    Amb |-> <<"nAmb">>, SV |-> <<"sfSemver">>,
    Ext |-> <<"nExt1", "nExt2">>, X |-> <<"nX">> ]

FollowedSymbols == DOMAIN Declarations

\* ts.Symbol.flags, reduced to the three flags the table tests
SymbolFlags == [s \in FollowedSymbols |-> IF s = "T" THEN {"TypeParameter"} ELSE {}]

FilteredFlags == {"TypeParameter", "TypeLiteral", "Transient"}

(***************************************************************************)
(* SymbolAnalyzer.followAliases, per provider symbol.  A declared symbol   *)
(* follows to itself without an import; an alias that crosses an import    *)
(* statement carries the AstImport key and is never ambient.  Amb is       *)
(* declared ambient, so the direct path to it is ambient while the path    *)
(* through "import { Amb } from 'legacy'" (A4) is not.  A1 and A2 import   *)
(* Widget from two copies of one library: distinct followed symbols, one   *)
(* key.  A3 imports Base, which Widget's own declaration reaches directly. *)
(***************************************************************************)
Aliases ==
  [ A1  |-> [followedSymbol |-> "W1",   localName |-> "Widget", isAmbient |-> FALSE, astImport |-> "lib:Widget"],
    A2  |-> [followedSymbol |-> "W2",   localName |-> "Widget", isAmbient |-> FALSE, astImport |-> "lib:Widget"],
    A3  |-> [followedSymbol |-> "Base", localName |-> "Base",   isAmbient |-> FALSE, astImport |-> "lib:Base"],
    A4  |-> [followedSymbol |-> "Amb",  localName |-> "Amb",    isAmbient |-> FALSE, astImport |-> "legacy:Amb"],
    A5  |-> [followedSymbol |-> "SV",   localName |-> "semver1", isAmbient |-> FALSE, astImport |-> "semver:*"] ]

Symbols == FollowedSymbols \cup DOMAIN Aliases

\* the provider symbols a caller hands to tryGetAstSymbol; the others are
\* reached through these, the exports and the references
RequestedSymbols == {"C", "bar", "W1", "Amb", "T", "U", "X", "Ext", "A1", "A2", "A4", "A5"}

ImportKeys == {Aliases[a].astImport : a \in DOMAIN Aliases}

\* ts.Symbol.name: the static foo of C is named as the instance foo
SymbolName(symbol) == IF symbol = "fooStatic" THEN "foo" ELSE symbol

\* the declarations that carry the modifier 'static'
StaticDeclarations == {"nFooStatic"}

FollowAliases(symbol) ==
  IF symbol \in DOMAIN Aliases THEN Aliases[symbol]
  ELSE [followedSymbol |-> symbol, localName |-> SymbolName(symbol),
        isAmbient |-> (symbol = "Amb"), astImport |-> None]

\* SymbolAnalyzer.isAstDeclaration
IsAstDeclaration(kind) ==
  kind \in {"ClassDeclaration", "InterfaceDeclaration", "MethodDeclaration",
            "ModuleDeclaration", "FunctionDeclaration", "EnumDeclaration",
            "VariableDeclaration", "PropertyDeclaration"}

\* TypeScriptHelpers.getSymbolForDeclaration
GetSymbolForDeclaration(n) == Node[n].symbol

\* ts.Program.isSourceFileFromExternalLibrary
IsSourceFileFromExternalLibrary(sf) == sf \in {"sfLib1", "sfLib2", "sfLegacy", "sfSemver"}

\* PackageMetadataManager.isAedocSupportedFor
IsAedocSupportedFor(sf) == sf \in {"sfLib1", "sfLib2", "sfSemver"}

\* The source modules fetchEntryPoint is called with, and
\* ts.TypeChecker.getExportsOfModule for each
ExportsOfModule ==
  [ modIndex |-> <<"C", "NS", "A1">>,
    modOther |-> <<"A2", "A3">>,
    modBad   |-> <<"Helper", "Amb", "NS">>,
    modEmpty |-> <<>> ]

Modules == DOMAIN ExportsOfModule

\* rootFileSymbol.declarations is empty for a file that is not a module
HasRootDeclaration(m) == m # "modEmpty"

VARIABLES
  astSymbols,                    \* the AstSymbol objects, by the followed symbol they were built for
  astDeclarations,               \* the AstDeclaration objects, by their node
  astSymbolsBySymbol,            \* _astSymbolsBySymbol
  astDeclarationsByDeclaration,  \* _astDeclarationsByDeclaration
  astSymbolsByImportKey,         \* _astSymbolsByImportKey
  astEntryPointsBySourceFile,    \* _astEntryPointsBySourceFile
  constructed,                   \* how many objects 'new' has built, per kind and key
  notified,                      \* how many times _notifyAnalyzed has marked each AstSymbol
  walked,                        \* how many times analyze has walked each root's declarations
  last,                          \* the last call: method, argument, result, error, and
                                 \* whether it repeated the call before it
  calls,                         \* how many calls the table has served
  members,                       \* the members added to one parent scope of the
                                 \* documentation model, in declaration order
  sourceText,                    \* the captured source text of one declaration
  excerptTokens,                 \* the token sequence shared by the declaration's Excerpts
  excerpts,                      \* the Excerpt objects, by name: tokenRange and _text
  lastText,                      \* what the last read of Excerpt.text returned
  inputFilePaths,                \* the list handed to generateFilePathsForAnalysis
  analysisFilePaths,             \* what generateFilePathsForAnalysis returned or threw
  extractorConfig,               \* the Extractor's configuration and the program it was built with
  monitoredLogger,               \* the counters of the Extractor's MonitoredLogger
  files,                         \* the output files written so far, by destination
  outcome,                       \* the last call of processProject: what it returned or threw
  runs                           \* how many times processProject was called

vars == <<astSymbols, astDeclarations, astSymbolsBySymbol, astDeclarationsByDeclaration,
          astSymbolsByImportKey, astEntryPointsBySourceFile, constructed, notified, walked,
               last,
          calls, members, sourceText, excerptTokens, excerpts, lastText,
          inputFilePaths, analysisFilePaths, extractorConfig, monitoredLogger, files,
          outcome, runs>>

\* the variables of the AstSymbolTable and of the record of its calls
tableVars == <<astSymbols, astDeclarations, astSymbolsBySymbol, astDeclarationsByDeclaration,
               astSymbolsByImportKey, astEntryPointsBySourceFile, constructed, notified, walked,
               last,
               calls>>

\* the variables of the canonical reference namer
namerVars == <<members>>

\* the variables of the Excerpts of one declaration
excerptVars == <<sourceText, excerptTokens, excerpts, lastText>>

\* the variables of a call of Extractor.generateFilePathsForAnalysis
pathVars == <<inputFilePaths, analysisFilePaths>>

\* the variables of an Extractor
extractorVars == <<extractorConfig, monitoredLogger, files, outcome, runs>>

(***************************************************************************)
(* The table as one value `t`, so that the methods can be written as       *)
(* operators from a table to a table.                                      *)
(***************************************************************************)
Table ==
  [astSymbols |-> astSymbols, astDeclarations |-> astDeclarations,
   astSymbolsBySymbol |-> astSymbolsBySymbol,
   astDeclarationsByDeclaration |-> astDeclarationsByDeclaration,
   astSymbolsByImportKey |-> astSymbolsByImportKey,
   astEntryPointsBySourceFile |-> astEntryPointsBySourceFile,
   constructed |-> constructed, notified |-> notified, walked |-> walked]

Empty == [x \in {} |-> None]

EmptyTable ==
  [astSymbols |-> Empty, astDeclarations |-> Empty, astSymbolsBySymbol |-> Empty,
   astDeclarationsByDeclaration |-> Empty, astSymbolsByImportKey |-> Empty,
   astEntryPointsBySourceFile |-> Empty, constructed |-> Empty, notified |-> Empty,
   walked |-> Empty]

\* Map.set
Put(f, k, v) == [x \in DOMAIN f \cup {k} |-> IF x = k THEN v ELSE f[x]]

\* Map.get
Get(f, k) == IF k \in DOMAIN f THEN f[k] ELSE None

Count(f, k) == IF k \in DOMAIN f THEN f[k] ELSE 0

Contains(seq, x) == \E i \in DOMAIN seq : seq[i] = x

\* a normal return and a throw; a throw keeps the table as mutated so far
Return(t, res) == [t |-> t, res |-> res, err |-> None]
Throw(t, msg) == [t |-> t, res |-> None, err |-> msg]

\* sequencing: a throw in r propagates, otherwise K continues from r's table and result
Then(r, K(_, _)) == IF r.err # None THEN r ELSE K(r.t, r.res)

(***************************************************************************)
(* AstSymbol and AstDeclaration                                            *)
(***************************************************************************)
\* AstSymbol.analyzed: being analyzed is a property of the root symbol
Analyzed(t, s) == t.astSymbols[t.astSymbols[s].rootAstSymbol].analyzed

\* AstSymbol.imported: looks for an import at the root of the tree
Imported(t, s) == t.astSymbols[t.astSymbols[s].rootAstSymbol].astImport # None

\* new AstSymbol(parameters)
NewAstSymbol(t, p) ==
  [t EXCEPT
     !.astSymbols = Put(@, p.followedSymbol,
        [localName |-> p.localName, followedSymbol |-> p.followedSymbol,
         astImport |-> p.astImport, nominal |-> p.nominal,
         parentAstSymbol |-> p.parentAstSymbol,
         rootAstSymbol |-> IF p.rootAstSymbol = None THEN p.followedSymbol ELSE p.rootAstSymbol,
         astDeclarations |-> <<>>, analyzed |-> FALSE]),
     !.constructed = Put(@, <<"AstSymbol", p.followedSymbol>>,
                         Count(@, <<"AstSymbol", p.followedSymbol>>) + 1)]

\* AstSymbol._notifyAnalyzed
NotifyAnalyzed(t, s) ==
  IF t.astSymbols[s].parentAstSymbol # None
  THEN Throw(t, "_notifyAnalyzed() called for an AstSymbol which is not the root")
  ELSE Return([t EXCEPT !.astSymbols[s].analyzed = TRUE,
                        !.notified = Put(@, s, Count(@, s) + 1)], None)

\* an AstDeclaration that attaches itself without asking whether its symbol or
\* its parent's symbol is analyzed
NewAstDeclarationUnguarded(t, declaration, astSymbol, parent) ==
  Return([t EXCEPT
            !.astDeclarations =
               [x \in DOMAIN @ \cup {declaration} |->
                  IF x = declaration
                  THEN [declaration |-> declaration, astSymbol |-> astSymbol, parent |-> parent,
                        children |-> <<>>, referencedAstSymbols |-> <<>>]
                  ELSE IF x = parent THEN [@[x] EXCEPT !.children = Append(@, declaration)]
                  ELSE @[x]],
            !.astSymbols[astSymbol].astDeclarations = Append(@, declaration),
            !.constructed = Put(@, <<"AstDeclaration", declaration>>,
                                Count(@, <<"AstDeclaration", declaration>>) + 1)],
         declaration)

\* new AstDeclaration(parameters): attaches itself to its symbol and to its parent
NewAstDeclaration(t, declaration, astSymbol, parent) ==
  LET t0 == [t EXCEPT
               !.astDeclarations = Put(@, declaration,
                  [declaration |-> declaration, astSymbol |-> astSymbol, parent |-> parent,
                   children |-> <<>>, referencedAstSymbols |-> <<>>]),
               !.constructed = Put(@, <<"AstDeclaration", declaration>>,
                                   Count(@, <<"AstDeclaration", declaration>>) + 1)]
  IN IF Analyzed(t0, astSymbol)
     THEN Throw(t0, "_notifyDeclarationAttach() called after analysis is already complete")
     ELSE LET t1 == [t0 EXCEPT !.astSymbols[astSymbol].astDeclarations = Append(@, declaration)]
          IN IF parent = None THEN Return(t1, declaration)
             ELSE IF Analyzed(t1, t1.astDeclarations[parent].astSymbol)
             THEN Throw(t1, "notifyChildAttach() called after analysis is already complete")
             ELSE Return([t1 EXCEPT !.astDeclarations[parent].children = Append(@, declaration)],
                         declaration)

\* whether astSymbol owns d or one of the declarations enclosing d
RECURSIVE ContainedInParent(_, _, _)
ContainedInParent(t, d, astSymbol) ==
  IF d = None THEN FALSE
  ELSE t.astDeclarations[d].astSymbol = astSymbol
       \/ ContainedInParent(t, t.astDeclarations[d].parent, astSymbol)

\* AstDeclaration._notifyReferencedAstSymbol
NotifyReferencedAstSymbol(t, d, referencedAstSymbol) ==
  IF Analyzed(t, t.astDeclarations[d].astSymbol)
  THEN Throw(t, "notifyReferencedAstSymbol() called after analysis is already complete")
  ELSE IF ContainedInParent(t, d, referencedAstSymbol)
          \/ Contains(t.astDeclarations[d].referencedAstSymbols, referencedAstSymbol)
  THEN Return(t, None)
  ELSE Return([t EXCEPT !.astDeclarations[d].referencedAstSymbols = Append(@, referencedAstSymbol)],
              None)

\* AstDeclaration.forEachDeclarationRecursive: d, then its children, depth first
RECURSIVE DeclarationsRecursive(_, _)
RECURSIVE DeclarationsRecursiveAll(_, _, _)
DeclarationsRecursive(t, d) ==
  <<d>> \o DeclarationsRecursiveAll(t, t.astDeclarations[d].children, 1)
DeclarationsRecursiveAll(t, ds, i) ==
  IF i > Len(ds) THEN <<>>
  ELSE DeclarationsRecursive(t, ds[i]) \o DeclarationsRecursiveAll(t, ds, i + 1)

(***************************************************************************)
(* AstSymbolTable._fetchAstSymbol                                          *)
(***************************************************************************)
\* _tryFindFirstAstDeclarationParent
RECURSIVE FirstAstDeclarationFrom(_)
FirstAstDeclarationFrom(currentNode) ==
  IF currentNode = None THEN None
  ELSE IF IsAstDeclaration(Node[currentNode].kind) THEN currentNode
  ELSE FirstAstDeclarationFrom(NodeParent[currentNode])

TryFindFirstAstDeclarationParent(node) == FirstAstDeclarationFrom(NodeParent[node])

\* the filter without its test of isAmbient
IsFilteredSymbolByFlagsOnly(far) == SymbolFlags[far.followedSymbol] \cap FilteredFlags # {}

\* the filter: type parameters, type literals, transient symbols, ambient symbols
IsFilteredSymbol(far) ==
  \/ SymbolFlags[far.followedSymbol] \cap FilteredFlags # {}
  \/ far.isAmbient

\* the lookup by followed symbol always missing
LookupBySymbolNever(t, followedSymbol) == None

\* this._astSymbolsBySymbol.get(followedSymbol)
LookupBySymbol(t, followedSymbol) == Get(t.astSymbolsBySymbol, followedSymbol)

\* the lookup by import key always missing
LookupByImportKeyNever(t, astImport) == None

\* this._astSymbolsByImportKey.get(astImport.key), for a path that has an import
LookupByImportKey(t, astImport) ==
  IF astImport = None THEN None ELSE Get(t.astSymbolsByImportKey, astImport)

\* a nominal flag that looks at the source-module case only
IsNominalSourceModuleOnly(followedSymbol) ==
  Len(Declarations[followedSymbol]) = 1
    /\ Node[Declarations[followedSymbol][1]].kind = "SourceFile"

\* the nominal flag of a new AstSymbol
IsNominal(followedSymbol) ==
  LET declarations == Declarations[followedSymbol]
      followedSymbolSourceFile == GetSourceFile(declarations[1])
  IN \/ Len(declarations) = 1 /\ Node[declarations[1]].kind = "SourceFile"
     \/ /\ IsSourceFileFromExternalLibrary(followedSymbolSourceFile)
        /\ ~IsAedocSupportedFor(followedSymbolSourceFile)

\* the consistency check left out, and the check made in both directions
CheckImportStatusSkipped(t, far, astSymbol) == Return(t, astSymbol)
CheckImportStatusBothWays(t, far, astSymbol) ==
  IF (far.astImport # None) # Imported(t, astSymbol)
  THEN Throw(t, "import status differs from the registered one")
  ELSE Return(t, astSymbol)

\* the consistency check that ends _fetchAstSymbol
CheckImportStatus(t, far, astSymbol) ==
  IF far.astImport # None /\ ~Imported(t, astSymbol)
  THEN Throw(t, "is being imported after it was already registered as non-imported")
  ELSE Return(t, astSymbol)

\* registers the new AstSymbol under its followed symbol and its import key
RegisterAstSymbol(t, followedSymbol, astImport) ==
  [t EXCEPT !.astSymbolsBySymbol = Put(@, followedSymbol, followedSymbol),
            !.astSymbolsByImportKey =
               IF astImport # None THEN Put(@, astImport, followedSymbol) ELSE @]

\* the loop building the declarations without wiring them to a parent declaration
RECURSIVE CreateAstDeclarationsUnparented(_, _, _, _)
CreateAstDeclarationsUnparented(t, followedSymbol, parentAstSymbol, i) ==
  IF i > Len(Declarations[followedSymbol]) THEN Return(t, followedSymbol)
  ELSE Then(NewAstDeclaration(t, Declarations[followedSymbol][i], followedSymbol, None),
         LAMBDA t1, astDeclaration :
           CreateAstDeclarationsUnparented(
             [t1 EXCEPT !.astDeclarationsByDeclaration =
                          Put(@, Declarations[followedSymbol][i], astDeclaration)],
             followedSymbol, parentAstSymbol, i + 1))

\* a loop that builds the AstDeclaration of the first declaration only
CreateAstDeclarationsFirstOnly(t, followedSymbol, parentAstSymbol, i) ==
  LET declaration == Declarations[followedSymbol][1]
      parentDeclaration ==
        IF parentAstSymbol = None THEN None ELSE TryFindFirstAstDeclarationParent(declaration)
  IN Then(NewAstDeclaration(t, declaration, followedSymbol,
                            IF parentDeclaration = None THEN None
                            ELSE Get(t.astDeclarationsByDeclaration, parentDeclaration)),
       LAMBDA t1, astDeclaration :
         Return([t1 EXCEPT !.astDeclarationsByDeclaration = Put(@, declaration, astDeclaration)],
                followedSymbol))

\* the loop building the AstDeclarations without entering them in
\* _astDeclarationsByDeclaration
RECURSIVE CreateAstDeclarationsUnregistered(_, _, _, _)
CreateAstDeclarationsUnregistered(t, followedSymbol, parentAstSymbol, i) ==
  IF i > Len(Declarations[followedSymbol]) THEN Return(t, followedSymbol)
  ELSE Then(NewAstDeclaration(t, Declarations[followedSymbol][i], followedSymbol, None),
         LAMBDA t1, astDeclaration :
           CreateAstDeclarationsUnregistered(t1, followedSymbol, parentAstSymbol, i + 1))

\* the loop that builds one AstDeclaration per declaration, from the i-th on
RECURSIVE CreateAstDeclarations(_, _, _, _)
CreateAstDeclarations(t, followedSymbol, parentAstSymbol, i) ==
  IF i > Len(Declarations[followedSymbol]) THEN Return(t, followedSymbol)
  ELSE
    LET declaration == Declarations[followedSymbol][i]
        parentDeclaration ==
          IF parentAstSymbol = None THEN None ELSE TryFindFirstAstDeclarationParent(declaration)
        parentAstDeclaration ==
          IF parentDeclaration = None THEN None
          ELSE Get(t.astDeclarationsByDeclaration, parentDeclaration)
    IN IF parentAstSymbol # None /\ parentDeclaration = None
       THEN Throw(t, "Missing parent declaration")
       ELSE IF parentAstSymbol # None /\ parentAstDeclaration = None
       THEN Throw(t, "Missing parent AstDeclaration")
       ELSE Then(NewAstDeclaration(t, declaration, followedSymbol, parentAstDeclaration),
              LAMBDA t1, astDeclaration :
                CreateAstDeclarations(
                  [t1 EXCEPT !.astDeclarationsByDeclaration = Put(@, declaration, astDeclaration)],
                  followedSymbol, parentAstSymbol, i + 1))

RECURSIVE FetchAstSymbol(_, _, _)

\* the parent AstSymbol of a new entry: that of the nearest enclosing declaration
\* of its first declaration, fetched by this same procedure
FetchParentAstSymbol(t, followedSymbol, nominal, addIfMissing) ==
  LET arbitaryParentDeclaration ==
        IF nominal THEN None
        ELSE TryFindFirstAstDeclarationParent(Declarations[followedSymbol][1])
  IN IF arbitaryParentDeclaration = None THEN Return(t, None)
     ELSE Then(FetchAstSymbol(t, GetSymbolForDeclaration(arbitaryParentDeclaration), addIfMissing),
            LAMBDA t1, parentAstSymbol :
              IF parentAstSymbol = None
              THEN Throw(t1, "Unable to construct a parent AstSymbol")
              ELSE Return(t1, parentAstSymbol))

\* the root handed to a new AstSymbol taken to be its parent
RootIsParent(t, parentAstSymbol) == parentAstSymbol

\* rootAstSymbol: parentAstSymbol ? parentAstSymbol.rootAstSymbol : undefined
RootOfParent(t, parentAstSymbol) ==
  IF parentAstSymbol # None THEN t.astSymbols[parentAstSymbol].rootAstSymbol ELSE None

\* a test of the declarations that accepts every construct
UsesUnsupportedConstructNever(nominal, declarations) == FALSE

\* if (!nominal): some declaration fails SymbolAnalyzer.isAstDeclaration
UsesUnsupportedConstruct(nominal, declarations) ==
  ~nominal /\ \E i \in DOMAIN declarations : ~IsAstDeclaration(Node[declarations[i]].kind)

\* the branch that creates a new entry
CreateAstSymbol(t, far, addIfMissing) ==
  LET followedSymbol == far.followedSymbol
      nominal == IsNominal(followedSymbol)
      declarations == Declarations[followedSymbol]
  IN IF UsesUnsupportedConstruct(nominal, declarations)
     THEN Throw(t, "uses a construct which may be an unimplemented language feature")
     ELSE Then(FetchParentAstSymbol(t, followedSymbol, nominal, addIfMissing),
            LAMBDA t1, parentAstSymbol :
              CreateAstDeclarations(
                RegisterAstSymbol(
                  NewAstSymbol(t1,
                    [localName |-> far.localName, followedSymbol |-> followedSymbol,
                     astImport |-> far.astImport, parentAstSymbol |-> parentAstSymbol,
                     rootAstSymbol |-> RootOfParent(t1, parentAstSymbol),
                     nominal |-> nominal]),
                  followedSymbol, far.astImport),
                followedSymbol, parentAstSymbol, 1))

\* the lookups of a symbol that passed the filter, and the branch each selects
FetchFollowedSymbol(t, far, bySymbol, byImportKey, addIfMissing) ==
  IF bySymbol # None THEN CheckImportStatus(t, far, bySymbol)
  ELSE IF Len(Declarations[far.followedSymbol]) < 1
  THEN Throw(t, "Followed a symbol with no declarations")
  ELSE IF byImportKey # None
  THEN CheckImportStatus(
         [t EXCEPT !.astSymbolsBySymbol = Put(@, far.followedSymbol, byImportKey)],
         far, byImportKey)
  ELSE Then(CreateAstSymbol(t, far, addIfMissing),
         LAMBDA t1, astSymbol : CheckImportStatus(t1, far, astSymbol))

FetchAstSymbolFollowing(t, far, addIfMissing) ==
  IF IsFilteredSymbol(far) THEN Return(t, None)
  ELSE FetchFollowedSymbol(t, far, LookupBySymbol(t, far.followedSymbol),
         LookupByImportKey(t, far.astImport), addIfMissing)

FetchAstSymbol(t, symbol, addIfMissing) ==
  FetchAstSymbolFollowing(t, FollowAliases(symbol), addIfMissing)

(***************************************************************************)
(* AstSymbolTable._analyzeChildTree                                        *)
(***************************************************************************)
IsReferenceKind(kind) ==
  kind \in {"TypeReference", "ExpressionWithTypeArguments", "ComputedPropertyName"}

\* the switch: a reference to another AstSymbol is resolved and noted on the
\* governing declaration
AnalyzeReference(t, node, governingAstDeclaration) ==
  IF ~IsReferenceKind(Node[node].kind) \/ Node[node].ref = "NoIdentifier" THEN Return(t, None)
  ELSE IF Node[node].ref = "NoSymbol" THEN Throw(t, "Symbol not found for identifier")
  ELSE Then(FetchAstSymbol(t, Node[node].ref, TRUE),
         LAMBDA t1, referencedAstSymbol :
           IF referencedAstSymbol = None THEN Return(t1, None)
           ELSE NotifyReferencedAstSymbol(t1, governingAstDeclaration, referencedAstSymbol))

\* _fetchAstSymbolForNode
FetchAstSymbolForNode(t, node) ==
  IF ~IsAstDeclaration(Node[node].kind) THEN Return(t, None)
  ELSE IF GetSymbolForDeclaration(node) = None THEN Throw(t, "Unable to find symbol for node")
  ELSE FetchAstSymbol(t, GetSymbolForDeclaration(node), TRUE)

\* _fetchAstDeclaration
FetchAstDeclaration(t, node) ==
  Then(FetchAstSymbolForNode(t, node),
    LAMBDA t1, astSymbol :
      IF astSymbol = None THEN Return(t1, None)
      ELSE IF Get(t1.astDeclarationsByDeclaration, node) = None
      THEN Throw(t1, "Unable to find constructed AstDeclaration")
      ELSE Return(t1, t1.astDeclarationsByDeclaration[node]))

RECURSIVE AnalyzeChildTree(_, _, _)
RECURSIVE AnalyzeChildNodes(_, _, _, _)
AnalyzeChildTree(t, node, governingAstDeclaration) ==
  IF Node[node].kind = "JSDocComment" THEN Return(t, None)
  ELSE Then(AnalyzeReference(t, node, governingAstDeclaration),
         LAMBDA t1, unused :
           Then(FetchAstDeclaration(t1, node),
             LAMBDA t2, newGoverningAstDeclaration :
               AnalyzeChildNodes(t2, Node[node].children,
                 IF newGoverningAstDeclaration # None
                 THEN newGoverningAstDeclaration ELSE governingAstDeclaration, 1)))

\* for (const childNode of node.getChildren())
AnalyzeChildNodes(t, childNodes, governingAstDeclaration, i) ==
  IF i > Len(childNodes) THEN Return(t, None)
  ELSE Then(AnalyzeChildTree(t, childNodes[i], governingAstDeclaration),
         LAMBDA t1, unused : AnalyzeChildNodes(t1, childNodes, governingAstDeclaration, i + 1))

(***************************************************************************)
(* AstSymbolTable.analyze                                                  *)
(***************************************************************************)
\* the guard of analyze never taken, and taken on the symbol's own flag only
IsAlreadyAnalyzedNever(t, astSymbol) == FALSE
IsAlreadyAnalyzedOwnFlag(t, astSymbol) == t.astSymbols[astSymbol].analyzed

\* if (astSymbol.analyzed) return
IsAlreadyAnalyzed(t, astSymbol) == Analyzed(t, astSymbol)

\* a nominal symbol returned from analyze without being marked
AnalyzeNominalUnmarked(t, astSymbol) == Return(t, None)

\* a nominal symbol is marked without being walked
AnalyzeNominal(t, astSymbol) == NotifyAnalyzed(t, astSymbol)

\* for (const astDeclaration of rootAstSymbol.astDeclarations), from the i-th on
RECURSIVE AnalyzeRootDeclarations(_, _, _)
AnalyzeRootDeclarations(t, rootAstSymbol, i) ==
  IF i > Len(t.astSymbols[rootAstSymbol].astDeclarations) THEN Return(t, None)
  ELSE Then(AnalyzeChildTree(t,
              t.astDeclarations[t.astSymbols[rootAstSymbol].astDeclarations[i]].declaration,
              t.astSymbols[rootAstSymbol].astDeclarations[i]),
         LAMBDA t1, unused : AnalyzeRootDeclarations(t1, rootAstSymbol, i + 1))

\* the loop over rootAstSymbol.astDeclarations is entered: one more walk of this root
BeginWalk(t, rootAstSymbol) == [t EXCEPT !.walked = Put(@, rootAstSymbol, Count(@, rootAstSymbol) + 1)]

\* rootAstSymbol._notifyAnalyzed(), once the tree of astSymbol's root is walked
MarkAnalyzed(t, astSymbol) == NotifyAnalyzed(t, t.astSymbols[astSymbol].rootAstSymbol)

\* the references noted on the declarations ds, in the order of
\* forEachDeclarationRecursive
RECURSIVE ReferencedAstSymbolsOf(_, _, _)
ReferencedAstSymbolsOf(t, ds, i) ==
  IF i > Len(ds) THEN <<>>
  ELSE t.astDeclarations[ds[i]].referencedAstSymbols \o ReferencedAstSymbolsOf(t, ds, i + 1)

\* the closure run for the symbols that carry an import instead
AnalyzesReferencesOfImported(t, astSymbol) == t.astSymbols[astSymbol].astImport # None

\* whether the closure over the references runs for astSymbol
AnalyzesReferences(t, astSymbol) == t.astSymbols[astSymbol].astImport = None

RECURSIVE Analyze(_, _)

\* a closure that skips no referenced symbol
IsSkippedReferenceNever(t, referencedAstSymbol) == FALSE

\* if (!referencedAstSymbol.imported): the closure passes over the imported ones
IsSkippedReference(t, referencedAstSymbol) == Imported(t, referencedAstSymbol)

\* the referenced symbols that are not imported are analyzed in turn
RECURSIVE AnalyzeReferenced(_, _, _)
AnalyzeReferenced(t, referenced, i) ==
  IF i > Len(referenced) THEN Return(t, None)
  ELSE IF IsSkippedReference(t, referenced[i]) THEN AnalyzeReferenced(t, referenced, i + 1)
  ELSE Then(Analyze(t, referenced[i]),
         LAMBDA t1, unused : AnalyzeReferenced(t1, referenced, i + 1))

Analyze(t, astSymbol) ==
  IF IsAlreadyAnalyzed(t, astSymbol) THEN Return(t, None)
  ELSE IF t.astSymbols[astSymbol].nominal THEN AnalyzeNominal(t, astSymbol)
  ELSE Then(AnalyzeRootDeclarations(BeginWalk(t, t.astSymbols[astSymbol].rootAstSymbol),
                                    t.astSymbols[astSymbol].rootAstSymbol, 1),
         LAMBDA t1, unused1 :
           Then(MarkAnalyzed(t1, astSymbol),
             LAMBDA t2, unused2 :
               IF ~AnalyzesReferences(t2, astSymbol) THEN Return(t2, None)
               ELSE AnalyzeReferenced(t2,
                      ReferencedAstSymbolsOf(t2,
                        DeclarationsRecursiveAll(t2,
                          t2.astSymbols[t2.astSymbols[astSymbol].rootAstSymbol].astDeclarations, 1),
                        1),
                      1)))

(***************************************************************************)
(* AstSymbolTable.fetchEntryPoint, tryGetAstSymbol                         *)
(***************************************************************************)
\* the entry point cache always missing
LookupEntryPointNever(t, sourceFile) == None

\* this._astEntryPointsBySourceFile.get(sourceFile)
LookupEntryPoint(t, sourceFile) ==
  IF sourceFile \in DOMAIN t.astEntryPointsBySourceFile THEN sourceFile ELSE None

\* an export listed without being analyzed
AnalyzeExportSkipped(t, astSymbol) == Return(t, None)

\* this.analyze(astSymbol) for an export
AnalyzeExport(t, astSymbol) == Analyze(t, astSymbol)

\* exportedMembers.push
PushExportedMember(exportedMembers, name, astSymbol) ==
  Append(exportedMembers, [name |-> name, astSymbol |-> astSymbol])

RECURSIVE FetchExports(_, _, _, _)

\* an unusable export skipped instead of thrown
UnsupportedExportSkipped(t, exportSymbols, i, exportedMembers) ==
  FetchExports(t, exportSymbols, i + 1, exportedMembers)

\* an unusable export reported and the loop left, instead of thrown
UnsupportedExportLogged(t, exportSymbols, i, exportedMembers) == Return(t, exportedMembers)

\* if (!astSymbol) throw
UnsupportedExport(t, exportSymbols, i, exportedMembers) == Throw(t, "Unsupported export")

\* for (const exportSymbol of exportSymbols), from the i-th on
FetchExports(t, exportSymbols, i, exportedMembers) ==
  IF i > Len(exportSymbols) THEN Return(t, exportedMembers)
  ELSE Then(FetchAstSymbol(t, exportSymbols[i], TRUE),
         LAMBDA t1, astSymbol :
           IF astSymbol = None THEN UnsupportedExport(t1, exportSymbols, i, exportedMembers)
           ELSE Then(AnalyzeExport(t1, astSymbol),
                  LAMBDA t2, unused :
                    FetchExports(t2, exportSymbols, i + 1,
                      PushExportedMember(exportedMembers, exportSymbols[i], astSymbol))))

\* new AstEntryPoint({ exportedMembers }), cached under its source file
NewAstEntryPoint(t, sourceFile, exportedMembers) ==
  [t EXCEPT !.astEntryPointsBySourceFile = Put(@, sourceFile, [exportedMembers |-> exportedMembers]),
            !.constructed = Put(@, <<"AstEntryPoint", sourceFile>>,
                                Count(@, <<"AstEntryPoint", sourceFile>>) + 1)]

FetchEntryPoint(t, sourceFile) ==
  IF LookupEntryPoint(t, sourceFile) # None THEN Return(t, sourceFile)
  ELSE IF ~HasRootDeclaration(sourceFile) THEN Throw(t, "Unable to find a root declaration")
  ELSE Then(FetchExports(t, ExportsOfModule[sourceFile], 1, <<>>),
         LAMBDA t1, exportedMembers :
           Return(NewAstEntryPoint(t1, sourceFile, exportedMembers), sourceFile))

TryGetAstSymbol(t, symbol) == FetchAstSymbol(t, symbol, FALSE)

(***************************************************************************)
(* AstSymbolTable.getChildAstDeclarationByNode                             *)
(***************************************************************************)
\* the parent link of the found child not compared with the supplied parent
IsAttachedToAny(t, childAstDeclaration, parentAstDeclaration) == TRUE

\* childAstDeclaration.parent === parentAstDeclaration
IsAttachedTo(t, childAstDeclaration, parentAstDeclaration) ==
  t.astDeclarations[childAstDeclaration].parent = parentAstDeclaration

\* the lookup once the parent is known to be analyzed
FindChildAstDeclaration(t, node, parentAstDeclaration, childAstDeclaration) ==
  IF childAstDeclaration = None
  THEN Throw(t, "Child declaration not found for the specified node")
  ELSE IF ~IsAttachedTo(t, childAstDeclaration, parentAstDeclaration)
  THEN Throw(t, "The found child is not attached to the parent AstDeclaration")
  ELSE Return(t, childAstDeclaration)

GetChildAstDeclarationByNode(t, node, parentAstDeclaration) ==
  IF ~Analyzed(t, t.astDeclarations[parentAstDeclaration].astSymbol)
  THEN Throw(t, "getChildDeclarationByNode() cannot be used for an AstSymbol that was not analyzed")
  ELSE FindChildAstDeclaration(t, node, parentAstDeclaration,
                               Get(t.astDeclarationsByDeclaration, node))

(***************************************************************************)
(* The state machine: a fresh table, then any sequence of calls.           *)
(***************************************************************************)
SetTable(t) ==
  /\ astSymbols' = t.astSymbols
  /\ astDeclarations' = t.astDeclarations
  /\ astSymbolsBySymbol' = t.astSymbolsBySymbol
  /\ astDeclarationsByDeclaration' = t.astDeclarationsByDeclaration
  /\ astSymbolsByImportKey' = t.astSymbolsByImportKey
  /\ astEntryPointsBySourceFile' = t.astEntryPointsBySourceFile
  /\ constructed' = t.constructed
  /\ notified' = t.notified
  /\ walked' = t.walked

InitTable ==
  /\ astSymbols = Empty
  /\ astDeclarations = Empty
  /\ astSymbolsBySymbol = Empty
  /\ astDeclarationsByDeclaration = Empty
  /\ astSymbolsByImportKey = Empty
  /\ astEntryPointsBySourceFile = Empty
  /\ constructed = Empty
  /\ notified = Empty
  /\ walked = Empty
  /\ last = [call |-> "new", arg |-> None, res |-> None, err |-> None, repeated |-> FALSE]
  /\ calls = 0

\* no member has been added to the scope
InitNamer == members = <<>>

\* no declaration has been captured
NoExcerpt ==
  /\ sourceText = <<>>
  /\ excerptTokens = <<>>
  /\ excerpts = Empty
  /\ lastText = [excerpt |-> None, text |-> <<>>]

\* generateFilePathsForAnalysis has not been called
NotGenerated == [called |-> FALSE, paths |-> <<>>, err |-> None]

NoPaths ==
  /\ inputFilePaths = <<>>
  /\ analysisFilePaths = NotGenerated

\* processProject has not been called
NotRun ==
  [status |-> "none", entryPointSourceFile |-> None, result |-> FALSE, err |-> None,
   errors |-> 0, warnings |-> 0, written |-> {},
   writes |-> <<>>, diagnostics |-> [errors |-> 0, warnings |-> 0],
   countersBefore |-> [errorCount |-> 0, warningCount |-> 0]]

\* no Extractor has been constructed
NoExtractor ==
  /\ extractorConfig = Empty
  /\ monitoredLogger = [errorCount |-> 0, warningCount |-> 0]
  /\ files = Empty
  /\ outcome = NotRun
  /\ runs = 0

Init == InitTable /\ InitNamer /\ NoExcerpt /\ NoPaths /\ NoExtractor

\* a call returns or throws: the table is as the call left it
Called(call, arg, r) ==
  /\ calls' = calls + 1
  /\ UNCHANGED <<namerVars, excerptVars, pathVars, extractorVars>>
  /\ SetTable(r.t)
  /\ last' = [call |-> call, arg |-> arg, res |-> r.res, err |-> r.err,
              repeated |-> (last.call = call /\ last.arg = arg)]

FetchEntryPointCall ==
  /\ calls < MaxCalls
  /\ \E sourceFile \in Modules :
       Called("fetchEntryPoint", sourceFile, FetchEntryPoint(Table, sourceFile))

\* analyze takes an AstSymbol, which a caller can only have obtained from the table
AnalyzeCall ==
  /\ calls < MaxCalls
  /\ \E astSymbol \in DOMAIN astSymbols :
       Called("analyze", astSymbol, Analyze(Table, astSymbol))

TryGetAstSymbolCall ==
  /\ calls < MaxCalls
  /\ \E symbol \in RequestedSymbols :
       Called("tryGetAstSymbol", symbol, TryGetAstSymbol(Table, symbol))

\* the nodes and the parent declarations a caller hands to
\* getChildAstDeclarationByNode
RequestedNodes == {"nFoo1", "nM2", "rT"}

RequestedParents == {"nC", "nNS1", "nNS2"}

\* the AstDeclarations a caller can hold: those the table registered
RegisteredAstDeclarations ==
  {astDeclarationsByDeclaration[n] : n \in DOMAIN astDeclarationsByDeclaration}

GetChildAstDeclarationByNodeCall ==
  /\ calls < MaxCalls
  /\ \E node \in RequestedNodes :
       \E parentAstDeclaration \in RequestedParents \cap RegisteredAstDeclarations :
         Called("getChildAstDeclarationByNode", <<node, parentAstDeclaration>>,
                GetChildAstDeclarationByNode(Table, node, parentAstDeclaration))

Next == FetchEntryPointCall \/ AnalyzeCall \/ TryGetAstSymbolCall

Spec == Init /\ [][Next]_vars

\* the table with its read-only lookup of child declarations as well
NextWithLookup == Next \/ GetChildAstDeclarationByNodeCall

SpecWithLookup == Init /\ [][NextWithLookup]_vars

(***************************************************************************)
(* Canonical references of the members of one parent scope (ApiMethod)     *)
(***************************************************************************)
MaxMembers == 4

\* the names a member can have; the last one is a quoted property name
MemberNames == {"foo", "bar", "foo:static"}

\* a reference with the static and instance markers exchanged
GetCanonicalReferenceSwapped(name, isStatic, overloadIndex) ==
  IF isStatic
  THEN "(" \o name \o ":instance," \o ToString(overloadIndex) \o ")"
  ELSE "(" \o name \o ":static," \o ToString(overloadIndex) \o ")"

\* a reference that leaves the static marker out
GetCanonicalReferenceWithoutStatic(name, isStatic, overloadIndex) ==
  "(" \o name \o "," \o ToString(overloadIndex) \o ")"

\* ApiMethod.getCanonicalReference
GetCanonicalReference(name, isStatic, overloadIndex) ==
  IF isStatic
  THEN "(" \o name \o ":static," \o ToString(overloadIndex) \o ")"
  ELSE "(" \o name \o ":instance," \o ToString(overloadIndex) \o ")"

\* ApiMethod.canonicalReference
CanonicalReference(member) ==
  GetCanonicalReference(member.name, member.isStatic, member.overloadIndex)

\* the overloadIndex of the next member (name, isStatic) of a scope: its
\* 0-based position among the members with that name and that static flag
OverloadIndexOf(scope, name, isStatic) ==
  Cardinality({i \in DOMAIN scope : scope[i].name = name /\ scope[i].isStatic = isStatic})

\* the members of the scope of a parent AstDeclaration: its children in the
\* order they were attached, each numbered as it is added
RECURSIVE NumberMembers(_, _, _, _)
NumberMembers(scope, t, children, i) ==
  IF i > Len(children) THEN scope
  ELSE LET name == t.astSymbols[t.astDeclarations[children[i]].astSymbol].localName
           isStatic == children[i] \in StaticDeclarations
       IN NumberMembers(
            Append(scope, [name |-> name, isStatic |-> isStatic,
                           overloadIndex |-> OverloadIndexOf(scope, name, isStatic)]),
            t, children, i + 1)

ScopeMembers(t, parentAstDeclaration) ==
  NumberMembers(<<>>, t, t.astDeclarations[parentAstDeclaration].children, 1)

\* a member is added to the scope, in declaration order
AddMember ==
  /\ Len(members) < MaxMembers
  /\ \E name \in MemberNames : \E isStatic \in BOOLEAN :
       members' = Append(members,
                    [name |-> name, isStatic |-> isStatic,
                     overloadIndex |-> OverloadIndexOf(members, name, isStatic)])
  /\ UNCHANGED <<tableVars, excerptVars, pathVars, extractorVars>>

NextNamer == AddMember

SpecNamer == Init /\ [][NextNamer]_vars

(***************************************************************************)
(* Excerpt and ExcerptToken.  A string is the sequence of its characters,  *)
(* so that joining is concatenation and a text can be cut into tokens.     *)
(***************************************************************************)
MaxSourceLength == 3

\* how often the text of one Excerpt is read
MaxReads == 2

Characters == {"a", "b"}

\* the source texts of a declaration
SourceTexts == UNION {[1..n -> Characters] : n \in 0..MaxSourceLength}

\* the declaration's own excerpt and one named sub-range
ExcerptNames == {"declaration", "returnType"}

\* the tokenization of a declaration's source text: Content tokens, one per
\* piece of the text between two cuts, the piece from position `from` first
RECURSIVE TokenizeFrom(_, _, _, _)
TokenizeFrom(source, cuts, from, i) ==
  IF i > Len(source) THEN <<>>
  ELSE IF i = Len(source) \/ i \in cuts
  THEN <<[kind |-> "Content", text |-> SubSeq(source, from, i)]>>
         \o TokenizeFrom(source, cuts, i + 1, i + 1)
  ELSE TokenizeFrom(source, cuts, from, i + 1)

Tokenize(source, cuts) == TokenizeFrom(source, cuts, 1, 1)

\* _text === undefined, and _text holding a string
Undefined == [defined |-> FALSE, value |-> <<>>]

Defined(string) == [defined |-> TRUE, value |-> string]

\* new Excerpt(tokens, tokenRange); accesses and computations count the reads
\* of text and the evaluations of the concatenation
NewExcerpt(tokenRange) ==
  [tokenRange |-> tokenRange, text |-> Undefined, accesses |-> 0, computations |-> 0]

\* a slice that takes the token at endIndex too
SliceInclusive(array, start, end) ==
  SubSeq(array, start + 1, IF end + 1 < Len(array) THEN end + 1 ELSE Len(array))

\* Array.prototype.slice(start, end): negative indices count from the end,
\* indices beyond the array are clamped, an empty window gives an empty array
Slice(array, start, end) ==
  LET len == Len(array)
      k == IF start < 0 THEN (IF len + start > 0 THEN len + start ELSE 0)
           ELSE (IF start < len THEN start ELSE len)
      final == IF end < 0 THEN (IF len + end > 0 THEN len + end ELSE 0)
               ELSE (IF end < len THEN end ELSE len)
  IN IF final > k THEN SubSeq(array, k + 1, final) ELSE <<>>

\* .map(x => x.text)
MapText(tokens) == [i \in DOMAIN tokens |-> tokens[i].text]

\* a join that puts a comma between the strings
RECURSIVE JoinWithComma(_)
JoinWithComma(strings) ==
  IF strings = <<>> THEN <<>>
  ELSE IF Len(strings) = 1 THEN strings[1]
  ELSE strings[1] \o <<",">> \o JoinWithComma(Tail(strings))

\* .join('')
RECURSIVE Join(_)
Join(strings) ==
  IF strings = <<>> THEN <<>> ELSE strings[1] \o Join(Tail(strings))

\* a test of the cache that never finds the text
IsTextUndefinedAlways(excerpt) == TRUE

\* this._text === undefined
IsTextUndefined(excerpt) == ~excerpt.text.defined

\* Excerpt.text: the Excerpt after the read, and the string returned
Text(tokens, excerpt) ==
  LET computed ==
        IF IsTextUndefined(excerpt)
        THEN [excerpt EXCEPT
                !.text = Defined(Join(MapText(Slice(tokens, excerpt.tokenRange.startIndex,
                                                    excerpt.tokenRange.endIndex)))),
                !.computations = @ + 1]
        ELSE excerpt
  IN [excerpt |-> [computed EXCEPT !.accesses = @ + 1], text |-> computed.text.value]

\* a declaration is captured: its text is tokenized once and its Excerpts are
\* ranges over the one token sequence
InitExcerpt ==
  /\ InitTable
  /\ InitNamer
  /\ NoPaths
  /\ NoExtractor
  /\ \E source \in SourceTexts : \E cuts \in SUBSET (1..(Len(source) - 1)) :
       /\ sourceText = source
       /\ excerptTokens = Tokenize(source, cuts)
       /\ \E startIndex, endIndex \in 0..(Len(Tokenize(source, cuts)) + 1) :
            excerpts =
              [name \in ExcerptNames |->
                 IF name = "declaration"
                 THEN NewExcerpt([startIndex |-> 0, endIndex |-> Len(Tokenize(source, cuts))])
                 ELSE NewExcerpt([startIndex |-> startIndex, endIndex |-> endIndex])]
  /\ lastText = [excerpt |-> None, text |-> <<>>]

\* a caller reads the text of an Excerpt
ReadText ==
  \E name \in ExcerptNames :
    /\ excerpts[name].accesses < MaxReads
    /\ excerpts' = [excerpts EXCEPT ![name] = Text(excerptTokens, @).excerpt]
    /\ lastText' = [excerpt |-> name, text |-> Text(excerptTokens, excerpts[name]).text]
    /\ UNCHANGED <<sourceText, excerptTokens>>
    /\ UNCHANGED <<tableVars, namerVars, pathVars, extractorVars>>

NextExcerpt == ReadText

SpecExcerpt == InitExcerpt /\ [][NextExcerpt]_vars

(***************************************************************************)
(* Extractor.generateFilePathsForAnalysis.  A path is the sequence of its  *)
(* characters.                                                             *)
(***************************************************************************)
MaxPaths == 3

\* /p.d.ts in three spellings, a second declaration file, a source file, a
\* file whose name only resembles a declaration file, and a relative path
FilePaths ==
  { <<"/", "p", ".", "d", ".", "t", "s">>,
    <<"/", "P", ".", "D", ".", "T", "S">>,
    <<"/", "p", ".", "D", ".", "t", "s">>,
    <<"/", "q", ".", "d", ".", "t", "s">>,
    <<"/", "p", ".", "t", "s">>,
    <<"/", "p", "d", ".", "t", "s">>,
    <<"q", ".", "d", ".", "t", "s">> }

\* the input lists: every list of up to MaxPaths paths
InputLists == UNION {[1..n -> FilePaths] : n \in 0..MaxPaths}

\* String.prototype.toUpperCase, for the characters of the paths
UpperCaseOf == [p |-> "P", q |-> "Q", d |-> "D", t |-> "T", s |-> "S"]

ToUpperCase(string) ==
  [i \in DOMAIN string |->
     IF string[i] \in DOMAIN UpperCaseOf THEN UpperCaseOf[string[i]] ELSE string[i]]

\* path.isAbsolute
IsAbsolute(filePath) == Len(filePath) >= 1 /\ filePath[1] = "/"

\* the extension test with the flag i left out
IsDeclarationFileCaseSensitive(filePath) ==
  /\ Len(filePath) >= 5
  /\ SubSeq(filePath, Len(filePath) - 4, Len(filePath)) = <<".", "d", ".", "t", "s">>

\* _declarationFileExtensionRegExp.test: /\.d\.ts$/i
IsDeclarationFile(filePath) ==
  /\ Len(filePath) >= 5
  /\ ToUpperCase(SubSeq(filePath, Len(filePath) - 4, Len(filePath)))
       = <<".", "D", ".", "T", "S">>

\* the loop over inputFilePaths from the i-th path on; seenFiles is a Set
RECURSIVE GenerateFrom(_, _, _, _)
GenerateFrom(filePaths, i, seenFiles, paths) ==
  IF i > Len(filePaths) THEN [called |-> TRUE, paths |-> paths, err |-> None]
  ELSE LET inputFilePath == filePaths[i]
           inputFileToUpper == ToUpperCase(inputFilePath)
       IN IF inputFileToUpper \in seenFiles
          THEN GenerateFrom(filePaths, i + 1, seenFiles, paths)
          ELSE IF ~IsAbsolute(inputFilePath)
          THEN [called |-> TRUE, paths |-> <<>>, err |-> "Input file is not an absolute path"]
          ELSE GenerateFrom(filePaths, i + 1, seenFiles \cup {inputFileToUpper},
                            IF IsDeclarationFile(inputFilePath)
                            THEN Append(paths, inputFilePath) ELSE paths)

\* Extractor.generateFilePathsForAnalysis
GenerateFilePathsForAnalysis(filePaths) == GenerateFrom(filePaths, 1, {}, <<>>)

\* a caller holds a list of paths
InitPaths ==
  /\ InitTable
  /\ InitNamer
  /\ NoExcerpt
  /\ NoExtractor
  /\ inputFilePaths \in InputLists
  /\ analysisFilePaths = NotGenerated

GenerateFilePathsForAnalysisCall ==
  /\ ~analysisFilePaths.called
  /\ analysisFilePaths' = GenerateFilePathsForAnalysis(inputFilePaths)
  /\ UNCHANGED inputFilePaths
  /\ UNCHANGED <<tableVars, namerVars, excerptVars, extractorVars>>

NextPaths == GenerateFilePathsForAnalysisCall

SpecPaths == InitPaths /\ [][NextPaths]_vars

(***************************************************************************)
(* Extractor.processProject                                                *)
(***************************************************************************)
MaxRuns == 2

\* the most errors, and the most warnings, the analysis of one run reports
MaxDiagnostics == 1

\* the entry points a run can name, with the file name of each; the last one
\* is not a declaration file
EntryPointFileName ==
  [ modIndex |-> <<"/", "p", ".", "d", ".", "t", "s">>,
    modOther |-> <<"/", "q", ".", "D", ".", "T", "S">>,
    modSource |-> <<"/", "p", ".", "t", "s">> ]

EntryPointSourceFiles == DOMAIN EntryPointFileName

\* the release tags: the declarations of the program that can carry one
TaggedDeclarations == {"nC", "nFoo2"}

ReleaseTags == {None, "internal", "beta", "public"}

\* dtsRollup.mainDtsRollupPath: not specified, relative, absolute
MainDtsRollupPaths == {"", "index.d.ts", "/index.d.ts"}

\* the folder that holds the file named by the "typings" field of package.json
TypingsFolders == {None, "publishFolder", "publishFolderForInternal"}

\* the Extractor's configurations, after the defaults have been applied; the
\* "typings" field is read only when mainDtsRollupPath is not specified, and
\* is left out otherwise
ExtractorConfigs ==
  { config \in
      [ localBuild : BOOLEAN,
        apiJsonFile : [enabled : BOOLEAN],
        dtsRollup : [enabled : BOOLEAN, trimming : BOOLEAN,
                     mainDtsRollupPath : MainDtsRollupPaths],
        typings : TypingsFolders,
        releaseTags : [TaggedDeclarations -> ReleaseTags] ] :
      config.dtsRollup.mainDtsRollupPath # "" => config.typings = None }

\* MonitoredLogger.resetCounters, logError and logWarning
ResetCounters(logger) == [errorCount |-> 0, warningCount |-> 0]

LoggedError(logger) == [logger EXCEPT !.errorCount = @ + 1]

LoggedWarning(logger) == [logger EXCEPT !.warningCount = @ + 1]

\* a run in progress: the logger, the files, and the record of what the run
\* has logged, written and thrown
LogError(x) ==
  [x EXCEPT !.logger = LoggedError(@), !.errors = @ + 1]

LogWarning(x) ==
  [x EXCEPT !.logger = LoggedWarning(@), !.warnings = @ + 1]

RECURSIVE LogErrors(_, _)
LogErrors(x, n) == IF n = 0 THEN x ELSE LogErrors(LogError(x), n - 1)

RECURSIVE LogWarnings(_, _)
LogWarnings(x, n) == IF n = 0 THEN x ELSE LogWarnings(LogWarning(x), n - 1)

WriteFile(x, destination, content) ==
  [x EXCEPT !.files = Put(@, destination, content), !.written = @ \cup {destination},
            !.writes = Append(@, destination)]

\* the graph of an entry point: what fetchEntryPoint makes of it in the new
\* table of the run's ExtractorContext
GraphOf ==
  [sourceFile \in EntryPointSourceFiles \cap Modules |-> FetchEntryPoint(EmptyTable, sourceFile)]

\* the release tag in effect for a declaration: its own, or that of the nearest
\* tagged declaration around it, or public
RECURSIVE EffectiveReleaseTag(_, _, _)
EffectiveReleaseTag(t, releaseTags, d) ==
  IF d \in DOMAIN releaseTags /\ releaseTags[d] # None THEN releaseTags[d]
  ELSE IF t.astDeclarations[d].parent # None
  THEN EffectiveReleaseTag(t, releaseTags, t.astDeclarations[d].parent)
  ELSE "public"

\* the visibility of a tag and the tier of a rollup, from internal up to public
Visibility == [internal |-> 1, beta |-> 2, public |-> 3]

Tier == [InternalRelease |-> 1, BetaRelease |-> 2, PublicRelease |-> 3]

\* the declarations of the package that a rollup of the kind retains
Retained(t, releaseTags, dtsKind) ==
  {d \in DOMAIN t.astDeclarations :
     /\ ~Imported(t, t.astDeclarations[d].astSymbol)
     /\ Visibility[EffectiveReleaseTag(t, releaseTags, d)] >= Tier[dtsKind]}

\* path.resolve(context.packageFolder, folder, mainDtsRollupPath): the parts are kept
Resolve(folder, mainDtsRollupPath) == [folder |-> folder, mainDtsRollupPath |-> mainDtsRollupPath]

\* _generateRollupDtsFile: dtsRollupGenerator.writeTypingsFile
GenerateRollupDtsFile(x, t, releaseTags, mainDtsRollupFullPath, dtsKind) ==
  WriteFile(x, mainDtsRollupFullPath.folder,
            [kind |-> dtsKind, retained |-> Retained(t, releaseTags, dtsKind),
             mainDtsRollupPath |-> mainDtsRollupFullPath.mainDtsRollupPath])

\* the kinds of the three trimmed rollups with public and internal exchanged
RollupKindOfExchanged ==
  [ publishFolderForPublic |-> "InternalRelease",
    publishFolderForBeta |-> "BetaRelease",
    publishFolderForInternal |-> "PublicRelease",
    publishFolder |-> "InternalRelease" ]

\* the kind of rollup written to each publish folder
RollupKindOf ==
  [ publishFolderForPublic |-> "PublicRelease",
    publishFolderForBeta |-> "BetaRelease",
    publishFolderForInternal |-> "InternalRelease",
    publishFolder |-> "InternalRelease" ]

\* the name of the "typings" file of package.json, relative to its folder
TypingsFileName == "typings.d.ts"

\* mainDtsRollupPath once it has passed the checks: the setting, or
\* path.relative(publish folder, resolvedTypings) when the setting is empty
MainDtsRollupPath(config) ==
  IF config.dtsRollup.mainDtsRollupPath = "" THEN TypingsFileName
  ELSE config.dtsRollup.mainDtsRollupPath

\* rollups written in the order internal, beta, public
RollupFoldersReversed ==
  <<"publishFolderForInternal", "publishFolderForBeta", "publishFolderForPublic">>

\* the folders of the three trimmed rollups, in the order they are written
RollupFolders ==
  <<"publishFolderForPublic", "publishFolderForBeta", "publishFolderForInternal">>

\* the last part of _generateRollupDtsFiles: the rollups are written
WriteRollups(x, config, t) ==
  IF config.dtsRollup.trimming
  THEN GenerateRollupDtsFile(
         GenerateRollupDtsFile(
           GenerateRollupDtsFile(x, t, config.releaseTags,
                                 Resolve(RollupFolders[1], MainDtsRollupPath(config)),
                                 RollupKindOf[RollupFolders[1]]),
           t, config.releaseTags, Resolve(RollupFolders[2], MainDtsRollupPath(config)),
           RollupKindOf[RollupFolders[2]]),
         t, config.releaseTags, Resolve(RollupFolders[3], MainDtsRollupPath(config)),
         RollupKindOf[RollupFolders[3]])
  ELSE GenerateRollupDtsFile(x, t, config.releaseTags,
                             Resolve("publishFolder", MainDtsRollupPath(config)),
                             RollupKindOf["publishFolder"])

\* a rollup step that writes the files without looking at the path
GenerateRollupDtsFilesUnchecked(x, config, t) ==
  IF ~config.dtsRollup.enabled THEN x ELSE WriteRollups(x, config, t)

\* Extractor._generateRollupDtsFiles
GenerateRollupDtsFiles(x, config, t) ==
  IF ~config.dtsRollup.enabled THEN x
  ELSE IF config.dtsRollup.mainDtsRollupPath = ""
  THEN IF config.typings = None THEN LogError(x)
       ELSE IF config.dtsRollup.trimming
       THEN IF config.typings # "publishFolderForInternal" THEN LogError(x)
            ELSE WriteRollups(x, config, t)
       ELSE IF config.typings # "publishFolder" THEN LogError(x)
            ELSE WriteRollups(x, config, t)
  ELSE IF config.dtsRollup.mainDtsRollupPath = "/index.d.ts" THEN LogError(x)
  ELSE WriteRollups(x, config, t)

\* a result that takes warnings for failures in a local build too
IsSuccessfulBuildStrict(localBuild, logger) ==
  (logger.errorCount + logger.warningCount) = 0

\* the value processProject returns
IsSuccessfulBuild(localBuild, logger) ==
  IF localBuild THEN logger.errorCount = 0
  ELSE (logger.errorCount + logger.warningCount) = 0

Returned(x, result) == [x EXCEPT !.status = "returned", !.result = result]

Threw(x, msg) == [x EXCEPT !.status = "threw", !.err = msg]

\* modelBuilder.buildApiPackage(): the graph of the entry point is built, and
\* the analysis reports its diagnostics to the logger
BuildApiPackage(x, sourceFile, diagnostics) ==
  LET logged == LogWarnings(LogErrors(x, diagnostics.errors), diagnostics.warnings)
  IN IF GraphOf[sourceFile].err # None THEN Threw(logged, GraphOf[sourceFile].err)
     ELSE logged

\* a processProject that catches what buildApiPackage throws and reports it
AfterBuildApiPackageCaught(x, config, t) ==
  LET caught == IF x.status = "threw"
                THEN LogError([x EXCEPT !.status = "none", !.err = None]) ELSE x
      saved == IF config.apiJsonFile.enabled THEN WriteFile(caught, "apiJsonFile", [kind |-> "ApiJson"])
               ELSE caught
  IN Returned(saved, IsSuccessfulBuild(config.localBuild, saved.logger))

\* processProject after buildApiPackage: what that threw leaves the method;
\* otherwise the files are written and the result is returned
AfterBuildApiPackage(x, config, t) ==
  IF x.status = "threw" THEN x
  ELSE LET saved == IF config.apiJsonFile.enabled
                    THEN WriteFile(x, "apiJsonFile", [kind |-> "ApiJson"]) ELSE x
           rolled == GenerateRollupDtsFiles(saved, config, t)
       IN Returned(rolled, IsSuccessfulBuild(config.localBuild, rolled.logger))

\* a processProject that starts with the counters as the call before left them
CountersAtStartKept(logger) == logger

\* this._monitoredLogger.resetCounters(), the first statement of processProject
CountersAtStart(logger) == ResetCounters(logger)

\* Extractor.processProject
ProcessProject(config, logger, writtenFiles, sourceFile, diagnostics) ==
  LET x == [logger |-> CountersAtStart(logger), files |-> writtenFiles, status |-> "none",
            entryPointSourceFile |-> sourceFile, result |-> FALSE, err |-> None,
            errors |-> 0, warnings |-> 0, written |-> {}, writes |-> <<>>]
  IN IF ~IsDeclarationFile(EntryPointFileName[sourceFile])
     THEN Threw(x, "The entry point is not a declaration file")
     ELSE AfterBuildApiPackage(BuildApiPackage(x, sourceFile, diagnostics), config,
                               GraphOf[sourceFile].t)

\* new Extractor(config, options)
InitExtractor ==
  /\ InitTable
  /\ InitNamer
  /\ NoExcerpt
  /\ NoPaths
  /\ extractorConfig \in ExtractorConfigs
  /\ monitoredLogger = [errorCount |-> 0, warningCount |-> 0]
  /\ files = Empty
  /\ outcome = NotRun
  /\ runs = 0

ProcessProjectCall ==
  /\ runs < MaxRuns
  /\ \E sourceFile \in EntryPointSourceFiles :
       \E errors, warnings \in 0..MaxDiagnostics :
         \A x \in {ProcessProject(extractorConfig, monitoredLogger, files, sourceFile,
                                  [errors |-> errors, warnings |-> warnings])} :
           /\ monitoredLogger' = x.logger
           /\ files' = x.files
           /\ outcome' = [status |-> x.status, entryPointSourceFile |-> sourceFile,
                          result |-> x.result, err |-> x.err, errors |-> x.errors,
                          warnings |-> x.warnings, written |-> x.written,
                          writes |-> x.writes,
                          diagnostics |-> [errors |-> errors, warnings |-> warnings],
                          countersBefore |-> monitoredLogger]
  /\ runs' = runs + 1
  /\ UNCHANGED extractorConfig
  /\ UNCHANGED <<tableVars, namerVars, excerptVars, pathVars>>

NextExtractor == ProcessProjectCall

SpecExtractor == InitExtractor /\ [][NextExtractor]_vars

(***************************************************************************)
(* Properties                                                              *)
(***************************************************************************)
FollowedOf(symbol) == FollowAliases(symbol).followedSymbol

ImportKeyOf(symbol) == FollowAliases(symbol).astImport

\* a provider symbol the table is to discard: its followed symbol is a type
\* parameter, a type literal or transient, or the path to it is ambient
Discarded(symbol) ==
  \/ SymbolFlags[FollowedOf(symbol)] \cap {"TypeParameter", "TypeLiteral", "Transient"} # {}
  \/ FollowAliases(symbol).isAmbient

ConstructedOnce(kind) == \A k \in DOMAIN constructed : k[1] = kind => constructed[k] = 1

\* the tables a caller can observe, without the call record
Tables == <<astSymbols, astDeclarations, astSymbolsBySymbol, astDeclarationsByDeclaration,
            astSymbolsByImportKey, astEntryPointsBySourceFile, constructed, notified>>

\* C1: no two AstSymbols ever carry the same import key, and from every
\* reachable table two provider symbols with distinct followed symbols and one
\* import key, resolved one after the other, yield the same AstSymbol whenever
\* both resolutions return
ImportOriginDedup ==
  /\ \A a, b \in DOMAIN astSymbols :
       (astSymbols[a].astImport # None /\ astSymbols[a].astImport = astSymbols[b].astImport)
         => a = b
  /\ \A p, q \in DOMAIN Aliases :
       (ImportKeyOf(p) = ImportKeyOf(q) /\ FollowedOf(p) # FollowedOf(q)) =>
         \A r1 \in {FetchAstSymbol(Table, p, TRUE)} :
           \A r2 \in {FetchAstSymbol(r1.t, q, TRUE)} :
             (r1.err = None /\ r2.err = None) => (r1.res # None /\ r2.res = r1.res)

\* C1 witness: both Widget imports are resolved, to one AstSymbol, the second
\* through the import key
ImportOriginDedupWitness ==
  /\ last.call = "tryGetAstSymbol" /\ last.arg = "A2" /\ last.err = None
  /\ "W1" \in DOMAIN astSymbolsBySymbol /\ "W2" \in DOMAIN astSymbolsBySymbol
  /\ astSymbolsBySymbol["W2"] = astSymbolsBySymbol["W1"]
  /\ last.res = "W1"

\* C2, in each state: every AstSymbol was built once, and resolving a provider
\* symbol whose followed symbol is registered returns the registered AstSymbol
\* and leaves the table alone, unless it throws
IdentityDedupState ==
  /\ ConstructedOnce("AstSymbol")
  /\ \A F \in DOMAIN astSymbolsBySymbol : astSymbolsBySymbol[F] \in DOMAIN astSymbols
  /\ \A symbol \in Symbols : \A addIfMissing \in BOOLEAN :
       (~Discarded(symbol) /\ FollowedOf(symbol) \in DOMAIN astSymbolsBySymbol) =>
         \A r \in {FetchAstSymbol(Table, symbol, addIfMissing)} :
           r.err = None => (r.res = astSymbolsBySymbol[FollowedOf(symbol)] /\ r.t = Table)
  /\ (last.call = "tryGetAstSymbol" /\ last.err = None /\ last.res # None) =>
       (/\ FollowedOf(last.arg) \in DOMAIN astSymbolsBySymbol
        /\ last.res = astSymbolsBySymbol[FollowedOf(last.arg)])

\* C2, in each step: an entry of the symbol table is never removed and never rebound
IdentityDedupStep ==
  \A F \in DOMAIN astSymbolsBySymbol :
    F \in DOMAIN astSymbolsBySymbol' /\ astSymbolsBySymbol'[F] = astSymbolsBySymbol[F]

\* C2: identity dedup
IdentityDedup == [](IdentityDedupState) /\ [][IdentityDedupStep]_vars

\* C2 witness: C, registered and analyzed by fetchEntryPoint, is resolved again
IdentityDedupWitness ==
  /\ "modIndex" \in DOMAIN astEntryPointsBySourceFile
  /\ last.call = "tryGetAstSymbol" /\ last.arg = "C" /\ last.res = "C"

\* C3: from every reachable table, an analyze that returns leaves a table on
\* which analyze of the same symbol returns at once and changes nothing
AnalyzeIdempotent ==
  \A astSymbol \in DOMAIN astSymbols :
    \A r1 \in {Analyze(Table, astSymbol)} :
      r1.err = None => Analyze(r1.t, astSymbol) = Return(r1.t, None)

\* C3 witness: analyze was called twice in a row on a symbol that is not a root
AnalyzeIdempotentWitness ==
  /\ last.call = "analyze" /\ last.repeated /\ last.err = None
  /\ astSymbols[last.arg].parentAstSymbol # None

\* C4: when analyze(s) returns, s.analyzed is true
AnalyzePostcondition ==
  /\ (last.call = "analyze" /\ last.err = None) => Analyzed(Table, last.arg)
  /\ \A astSymbol \in DOMAIN astSymbols :
       \A r \in {Analyze(Table, astSymbol)} : r.err = None => Analyzed(r.t, astSymbol)

\* C4 witness: analyze returned for a symbol whose root is another symbol
AnalyzePostconditionWitness ==
  /\ last.call = "analyze" /\ last.err = None
  /\ astSymbols[last.arg].rootAstSymbol # last.arg
  /\ Analyzed(Table, last.arg)

\* C5, in each state: the flag of a symbol is true exactly when the marking step
\* ran for it, and the step ran at most once
AnalyzedMarkedOnce ==
  \A s \in DOMAIN astSymbols :
    /\ Count(notified, s) \in {0, 1}
    /\ astSymbols[s].analyzed <=> Count(notified, s) = 1

\* C5, in each step: a flag that is true stays true, on the symbol and as read
\* through its root
AnalyzedStaysTrue ==
  \A s \in DOMAIN astSymbols :
    /\ astSymbols[s].analyzed => (s \in DOMAIN astSymbols' /\ astSymbols'[s].analyzed)
    /\ Analyzed(Table, s) => (s \in DOMAIN astSymbols' /\ Analyzed(Table', s))

\* C5: the analyzed flag is monotonic and set at most once
AnalyzedMonotonic == [](AnalyzedMarkedOnce) /\ [][AnalyzedStaysTrue]_vars

\* C5 witness: a nominal symbol and a walked root are both marked, and analyze
\* was called again on a marked symbol
AnalyzedMonotonicWitness ==
  /\ last.call = "analyze" /\ last.repeated /\ last.err = None
  /\ Count(notified, astSymbols[last.arg].rootAstSymbol) = 1

\* C6: a step of tryGetAstSymbol changes no table and builds no object, and for
\* a symbol whose followed symbol is not registered it returns absent
TryGetAstSymbolIsPureLookup ==
  [][last'.call = "tryGetAstSymbol" =>
       /\ UNCHANGED Tables
       /\ FollowedOf(last'.arg) \notin DOMAIN astSymbolsBySymbol => last'.res = None]_vars

\* C7: from every reachable table, resolving a discarded symbol returns absent
\* and changes nothing, with either value of addIfMissing
FilteredSymbolsAbsent ==
  /\ \A symbol \in Symbols : \A addIfMissing \in BOOLEAN :
       Discarded(symbol) => FetchAstSymbol(Table, symbol, addIfMissing) = Return(Table, None)
  /\ (last.call = "tryGetAstSymbol" /\ Discarded(last.arg)) =>
       (last.res = None /\ last.err = None)

\* C7 witness: the ambient path to Amb is resolved while the cache holds an
\* AstSymbol for Amb, registered through the import path
FilteredSymbolsAbsentWitness ==
  /\ last.call = "tryGetAstSymbol" /\ last.arg = "Amb" /\ last.res = None
  /\ "Amb" \in DOMAIN astSymbolsBySymbol

\* C8: an entry point was built once, and fetchEntryPoint of a cached module
\* returns it and changes nothing
EntryPointMemoized ==
  /\ ConstructedOnce("AstEntryPoint")
  /\ \A sourceFile \in DOMAIN astEntryPointsBySourceFile :
       FetchEntryPoint(Table, sourceFile) = Return(Table, sourceFile)

\* C8 witness: fetchEntryPoint was called twice in a row for the package's module
EntryPointMemoizedWitness ==
  /\ last.call = "fetchEntryPoint" /\ last.repeated /\ last.err = None
  /\ last.arg = "modIndex" /\ last.res = "modIndex"

\* C9: a cached entry point lists the module's exports, one entry each and in
\* the provider's order, each with its registered AstSymbol, which is analyzed
EntryPointListsExports ==
  \A sourceFile \in DOMAIN astEntryPointsBySourceFile :
    LET exportedMembers == astEntryPointsBySourceFile[sourceFile].exportedMembers
        exportSymbols == ExportsOfModule[sourceFile]
    IN /\ Len(exportedMembers) = Len(exportSymbols)
       /\ \A i \in DOMAIN exportSymbols :
            /\ exportedMembers[i].name = exportSymbols[i]
            /\ FollowedOf(exportSymbols[i]) \in DOMAIN astSymbolsBySymbol
            /\ exportedMembers[i].astSymbol = astSymbolsBySymbol[FollowedOf(exportSymbols[i])]
            /\ Analyzed(Table, exportedMembers[i].astSymbol)

\* C9 witness: the package's entry point, with three exports, was fetched
EntryPointListsExportsWitness ==
  /\ last.call = "fetchEntryPoint" /\ last.arg = "modIndex" /\ last.err = None
  /\ Len(astEntryPointsBySourceFile["modIndex"].exportedMembers) = 3

\* C10: a module with a discarded export never has a cached entry point, and
\* from every reachable table fetchEntryPoint of it throws and caches nothing
UnsupportedExportFatal ==
  \A sourceFile \in Modules :
    (\E i \in DOMAIN ExportsOfModule[sourceFile] : Discarded(ExportsOfModule[sourceFile][i])) =>
      /\ sourceFile \notin DOMAIN astEntryPointsBySourceFile
      /\ \A r \in {FetchEntryPoint(Table, sourceFile)} :
           /\ r.err # None /\ r.res = None
           /\ sourceFile \notin DOMAIN r.t.astEntryPointsBySourceFile
      /\ (last.call = "fetchEntryPoint" /\ last.arg = sourceFile) => last.err # None

\* C10 witness: the fetch of modBad threw at its ambient export, after its first
\* export was registered and analyzed
UnsupportedExportFatalWitness ==
  /\ last.call = "fetchEntryPoint" /\ last.arg = "modBad" /\ last.err = "Unsupported export"
  /\ "Helper" \in DOMAIN astSymbols /\ Analyzed(Table, "Helper")
  /\ "modBad" \notin DOMAIN astEntryPointsBySourceFile

\* a module one of whose exports the table discards
HasDiscardedExport(sourceFile) ==
  \E i \in DOMAIN ExportsOfModule[sourceFile] : Discarded(ExportsOfModule[sourceFile][i])

\* C11, as stated: a fetchEntryPoint of a module with an unsupported export
\* does not abort, it returns
UnsupportedExportIsDiagnostic ==
  (last.call = "fetchEntryPoint" /\ HasDiscardedExport(last.arg)) => last.err = None

\* C11, as amended: an unsupported export aborts fetchEntryPoint where it
\* stands.  From every reachable table the call's outcome is the outcome of
\* the exports before the first unsupported one, followed by the throw of
\* 'Unsupported export' unless one of those threw already; no later export is
\* resolved and nothing but the exception reports it
UnsupportedExportAborts ==
  \A sourceFile \in Modules :
    \A i \in DOMAIN ExportsOfModule[sourceFile] :
      (/\ Discarded(ExportsOfModule[sourceFile][i])
       /\ \A j \in 1..(i - 1) : ~Discarded(ExportsOfModule[sourceFile][j])) =>
        \A earlier \in {FetchExports(Table, SubSeq(ExportsOfModule[sourceFile], 1, i - 1), 1, <<>>)} :
          FetchEntryPoint(Table, sourceFile) =
            IF earlier.err # None THEN earlier ELSE Throw(earlier.t, "Unsupported export")

\* C11 witness: the fetch of modBad threw at its second export and its third
\* export, NS, was not resolved
UnsupportedExportAbortsWitness ==
  /\ last.call = "fetchEntryPoint" /\ last.arg = "modBad" /\ last.err = "Unsupported export"
  /\ last.res = None
  /\ "NS" \notin DOMAIN astSymbolsBySymbol

SeqToSet(seq) == {seq[i] : i \in DOMAIN seq}

\* the AstSymbols referenced by the declarations in the tree of x's root
ReferencedByTree(t, x) ==
  SeqToSet(ReferencedAstSymbolsOf(t,
             DeclarationsRecursiveAll(t,
               t.astSymbols[t.astSymbols[x].rootAstSymbol].astDeclarations, 1), 1))

\* the symbols reached from the frontier by following references, through the
\* trees of all referenced symbols or of the non-imported ones only
RECURSIVE ReachableByReferences(_, _, _, _)
ReachableByReferences(t, seen, frontier, throughImported) ==
  IF frontier = {} THEN seen
  ELSE ReachableByReferences(t, seen \cup frontier,
         UNION {IF throughImported \/ ~Imported(t, x) THEN ReferencedByTree(t, x) ELSE {} :
                  x \in frontier} \ (seen \cup frontier),
         throughImported)

\* every non-imported symbol reached from the tree of s's root is in the table
\* and analyzed
ReferencesClosed(t, s, throughImported) ==
  \A x \in ReachableByReferences(t, {}, ReferencedByTree(t, s), throughImported) :
    ~Imported(t, x) => (x \in DOMAIN t.astSymbols /\ Analyzed(t, x))

\* C12, as stated: from every reachable table, when analyze(s) returns for a
\* symbol s without an import origin, every non-imported symbol reachable from
\* the tree of s's root by following references is analyzed
ForgottenExportClosure ==
  \A s \in DOMAIN astSymbols :
    astSymbols[s].astImport = None =>
      \A r \in {Analyze(Table, s)} : r.err = None => ReferencesClosed(r.t, s, TRUE)

\* C12, as amended: from every reachable table, when an analyze(s) that finds s
\* not yet analyzed returns for a symbol s without an import origin, every
\* non-imported symbol reachable from the tree of s's root by following
\* references through non-imported symbols is analyzed
ForgottenExportClosureOfFirstAnalyze ==
  \A s \in DOMAIN astSymbols :
    (astSymbols[s].astImport = None /\ ~Analyzed(Table, s)) =>
      \A r \in {Analyze(Table, s)} : r.err = None => ReferencesClosed(r.t, s, FALSE)

\* C12 witness: analyze(C) was called on a table that had not fetched the entry
\* point; Helper, which only C's method mentions, exists and is analyzed
ForgottenExportClosureWitness ==
  /\ last.call = "analyze" /\ last.arg = "C" /\ last.err = None /\ ~last.repeated
  /\ "modIndex" \notin DOMAIN astEntryPointsBySourceFile
  /\ "Helper" \in ReferencedByTree(Table, "C")
  /\ Analyzed(Table, "Helper")

\* C13: no declaration of a nominal AstSymbol has a child declaration or a
\* reference
NominalNeverExpanded ==
  \A d \in DOMAIN astDeclarations :
    astSymbols[astDeclarations[d].astSymbol].nominal =>
      (astDeclarations[d].children = <<>> /\ astDeclarations[d].referencedAstSymbols = <<>>)

\* seq is an initial part of longer
IsPrefix(seq, longer) ==
  Len(seq) <= Len(longer) /\ \A i \in DOMAIN seq : longer[i] = seq[i]

\* C14, in each step: the children and the references of a declaration only
\* grow, and those of a declaration whose symbol is analyzed do not change
FrozenStep ==
  \A d \in DOMAIN astDeclarations :
    /\ d \in DOMAIN astDeclarations'
    /\ IsPrefix(astDeclarations[d].children, astDeclarations'[d].children)
    /\ IsPrefix(astDeclarations[d].referencedAstSymbols, astDeclarations'[d].referencedAstSymbols)
    /\ Analyzed(Table, astDeclarations[d].astSymbol) =>
         /\ astDeclarations'[d].children = astDeclarations[d].children
         /\ astDeclarations'[d].referencedAstSymbols = astDeclarations[d].referencedAstSymbols

\* C14: the children and references of the declarations of an analyzed
\* AstSymbol are frozen
FrozenAfterAnalysis == [][FrozenStep]_vars

\* C14 witness: Ext was analyzed, and the resolution of its member X that
\* followed was refused when X's declaration tried to attach itself
FrozenAfterAnalysisWitness ==
  /\ last.call = "tryGetAstSymbol" /\ last.arg = "X"
  /\ last.err = "_notifyDeclarationAttach() called after analysis is already complete"
  /\ Analyzed(Table, "Ext")
  /\ astDeclarations["nExt2"].children = <<>>

\* C15: all declarations of one AstSymbol share the parent symbol: a
\* declaration has no parent exactly when its symbol has none, and otherwise
\* its parent declaration belongs to its symbol's parent
DeclarationsShareParentSymbol ==
  \A d \in DOMAIN astDeclarations :
    /\ astDeclarations[d].parent = None
         <=> astSymbols[astDeclarations[d].astSymbol].parentAstSymbol = None
    /\ astDeclarations[d].parent # None =>
         astDeclarations[astDeclarations[d].parent].astSymbol
           = astSymbols[astDeclarations[d].astSymbol].parentAstSymbol

\* C15 witness: the two declarations of M lie in the two declarations of the
\* merged namespace NS
DeclarationsShareParentSymbolWitness ==
  /\ "nM1" \in DOMAIN astDeclarations /\ "nM2" \in DOMAIN astDeclarations
  /\ astDeclarations["nM1"].parent = "nNS1" /\ astDeclarations["nM2"].parent = "nNS2"
  /\ astDeclarations["nM1"].astSymbol = "M" /\ astDeclarations["nM2"].astSymbol = "M"
  /\ astSymbols["M"].parentAstSymbol = "NS"

\* C16: the root of an AstSymbol is the top of its parent chain: the symbol
\* itself when it has no parent, its parent's root otherwise, and a root has
\* no parent
RootIsTopmostAncestor ==
  \A s \in DOMAIN astSymbols :
    /\ astSymbols[s].rootAstSymbol \in DOMAIN astSymbols
    /\ astSymbols[astSymbols[s].rootAstSymbol].parentAstSymbol = None
    /\ IF astSymbols[s].parentAstSymbol = None
       THEN astSymbols[s].rootAstSymbol = s
       ELSE /\ astSymbols[s].parentAstSymbol \in DOMAIN astSymbols
            /\ astSymbols[s].rootAstSymbol = astSymbols[astSymbols[s].parentAstSymbol].rootAstSymbol

\* C16 witness: run, a method of class Inner of namespace NS, has root NS two
\* levels up
RootIsTopmostAncestorWitness ==
  /\ "run" \in DOMAIN astSymbols
  /\ astSymbols["run"].parentAstSymbol = "Inner"
  /\ astSymbols["Inner"].parentAstSymbol = "NS"
  /\ astSymbols["run"].rootAstSymbol = "NS"

\* an alias crossing an import whose followed symbol is registered to a
\* non-imported AstSymbol
ImportsRegisteredNonImported(symbol) ==
  /\ symbol \in DOMAIN Aliases
  /\ FollowedOf(symbol) \in DOMAIN astSymbolsBySymbol
  /\ ~Imported(Table, astSymbolsBySymbol[FollowedOf(symbol)])

\* a declared symbol, reached without an import, that is registered to an
\* imported AstSymbol
ReachesRegisteredImportedDirectly(symbol) ==
  /\ symbol \in FollowedSymbols /\ ~Discarded(symbol)
  /\ symbol \in DOMAIN astSymbolsBySymbol
  /\ Imported(Table, astSymbolsBySymbol[symbol])

\* C17: from every reachable table, resolving through an import a followed
\* symbol registered as non-imported throws and returns no symbol
ImportAfterNonImportedIsFatal ==
  /\ \A symbol \in Symbols : \A addIfMissing \in BOOLEAN :
       ImportsRegisteredNonImported(symbol) =>
         FetchAstSymbol(Table, symbol, addIfMissing)
           = Throw(Table, "is being imported after it was already registered as non-imported")
  /\ (last.call = "tryGetAstSymbol" /\ last.err = None /\ last.res # None
        /\ last.arg \in DOMAIN Aliases) => Imported(Table, last.res)

\* C17 witness: Widget of lib1 was registered without an import and then
\* resolved through the import A1, which threw
ImportAfterNonImportedIsFatalWitness ==
  /\ last.call = "tryGetAstSymbol" /\ last.arg = "A1"
  /\ last.err = "is being imported after it was already registered as non-imported"
  /\ "W1" \in DOMAIN astSymbols /\ astSymbols["W1"].astImport = None

\* C18, as stated: from every reachable table, resolving without an import a
\* followed symbol registered as imported throws
NonImportedAfterImportIsFatal ==
  \A symbol \in Symbols :
    ReachesRegisteredImportedDirectly(symbol) =>
      FetchAstSymbol(Table, symbol, TRUE).err # None

\* C18, as amended: from every reachable table, resolving without an import a
\* followed symbol registered as imported returns the registered AstSymbol,
\* still imported, and changes nothing
NonImportedAfterImportReturnsRegistered ==
  \A symbol \in Symbols : \A addIfMissing \in BOOLEAN :
    ReachesRegisteredImportedDirectly(symbol) =>
      FetchAstSymbol(Table, symbol, addIfMissing) = Return(Table, astSymbolsBySymbol[symbol])

\* C18 witness: Widget of lib1 was registered through the import A1 and then
\* resolved directly, which returned it
NonImportedAfterImportReturnsRegisteredWitness ==
  /\ last.call = "tryGetAstSymbol" /\ last.arg = "W1" /\ last.err = None /\ last.res = "W1"
  /\ astSymbols["W1"].astImport = "lib:Widget"

\* the outcome the lookup of node under parentAstDeclaration is to have
ChildLookupOutcome(node, parentAstDeclaration) ==
  IF \/ ~Analyzed(Table, astDeclarations[parentAstDeclaration].astSymbol)
     \/ node \notin DOMAIN astDeclarationsByDeclaration
  THEN "fails"
  ELSE IF astDeclarations[astDeclarationsByDeclaration[node]].parent # parentAstDeclaration
  THEN "fails"
  ELSE astDeclarationsByDeclaration[node]

\* C19: from every reachable table and for every node and every parent
\* declaration, getChildAstDeclarationByNode throws when the parent's symbol is
\* not analyzed, when no AstDeclaration is registered for the node or when the
\* one registered has another parent; otherwise it returns the AstDeclaration
\* registered for the node; either way the table is unchanged
ChildLookupChecked ==
  /\ \A node \in Nodes : \A parentAstDeclaration \in RegisteredAstDeclarations :
       \A r \in {GetChildAstDeclarationByNode(Table, node, parentAstDeclaration)} :
         /\ r.t = Table
         /\ IF ChildLookupOutcome(node, parentAstDeclaration) = "fails"
            THEN r.err # None /\ r.res = None
            ELSE r.err = None /\ r.res = ChildLookupOutcome(node, parentAstDeclaration)
  /\ (last.call = "getChildAstDeclarationByNode" /\ last.err = None)
       => /\ last.arg[1] \in DOMAIN astDeclarationsByDeclaration
          /\ last.res = astDeclarationsByDeclaration[last.arg[1]]
          /\ astDeclarations[last.res].parent = last.arg[2]
          /\ Analyzed(Table, astDeclarations[last.arg[2]].astSymbol)

\* C19 witness: namespace NS is analyzed and the lookup of M's second
\* declaration under the first part of NS was refused, the declaration being
\* attached to the second part
ChildLookupCheckedWitness ==
  /\ last.call = "getChildAstDeclarationByNode"
  /\ last.arg = <<"nM2", "nNS1">>
  /\ last.err = "The found child is not attached to the parent AstDeclaration"
  /\ Analyzed(Table, "NS")
  /\ astDeclarations["nM2"].parent = "nNS2"

\* C20: no two distinct members of the scope have the same name, static flag
\* and overloadIndex, and no two have the same canonical reference
CanonicalReferenceUnique ==
  \A i, j \in DOMAIN members :
    i # j =>
      /\ <<members[i].name, members[i].isStatic, members[i].overloadIndex>>
           # <<members[j].name, members[j].isStatic, members[j].overloadIndex>>
      /\ CanonicalReference(members[i]) # CanonicalReference(members[j])

\* C20 witness: the scope holds two instance overloads of foo and a static foo
CanonicalReferenceUniqueWitness ==
  /\ Len(members) >= 3
  /\ \E i, j, k \in DOMAIN members :
       /\ i < j
       /\ members[i].name = "foo" /\ ~members[i].isStatic
       /\ members[j].name = "foo" /\ ~members[j].isStatic
       /\ members[k].name = "foo" /\ members[k].isStatic
       /\ CanonicalReference(members[i]) = "(foo:instance,0)"
       /\ CanonicalReference(members[j]) = "(foo:instance,1)"
       /\ CanonicalReference(members[k]) = "(foo:static,0)"

\* C21: getCanonicalReference(name, isStatic, overloadIndex) is exactly
\* '(' + name + ':static,' + overloadIndex + ')' for a static member and
\* '(' + name + ':instance,' + overloadIndex + ')' otherwise, for every name
\* and index, and so is the canonicalReference of every member of the scope
CanonicalReferenceFormat ==
  /\ \A name \in MemberNames : \A overloadIndex \in 0..MaxMembers :
       /\ GetCanonicalReference(name, TRUE, overloadIndex)
            = "(" \o name \o ":static," \o ToString(overloadIndex) \o ")"
       /\ GetCanonicalReference(name, FALSE, overloadIndex)
            = "(" \o name \o ":instance," \o ToString(overloadIndex) \o ")"
  /\ \A i \in DOMAIN members :
       CanonicalReference(members[i])
         = "(" \o members[i].name
               \o (IF members[i].isStatic THEN ":static," ELSE ":instance,")
               \o ToString(members[i].overloadIndex) \o ")"

\* C21 witness: the scope holds a static and an instance member whose
\* overloadIndex is not 0, with the references written out
CanonicalReferenceFormatWitness ==
  \E i, j \in DOMAIN members :
    /\ members[i] = [name |-> "bar", isStatic |-> TRUE, overloadIndex |-> 1]
    /\ members[j] = [name |-> "foo:static", isStatic |-> FALSE, overloadIndex |-> 1]
    /\ CanonicalReference(members[i]) = "(bar:static,1)"
    /\ CanonicalReference(members[j]) = "(foo:static:instance,1)"

\* the parent declaration shared by all the declarations of a symbol, if any
SharedParentDeclaration(s) ==
  IF \E p \in Nodes : \A i \in DOMAIN Declarations[s] :
       TryFindFirstAstDeclarationParent(Declarations[s][i]) = p
  THEN TryFindFirstAstDeclarationParent(Declarations[s][1])
  ELSE None

\* the position of a declaration among the children of its parent AstDeclaration
ChildPosition(d) ==
  CHOOSE k \in DOMAIN astDeclarations[astDeclarations[d].parent].children :
    astDeclarations[astDeclarations[d].parent].children[k] = d

\* C22: a symbol with several declarations in one parent scope has one
\* AstSymbol owning one AstDeclaration per overload, in declaration order, and
\* the member of the i-th overload (from 0) has overloadIndex i and the
\* canonical reference of its name, its static flag and i; the overloads of
\* foo get (foo:instance,0) and (foo:instance,1)
OverloadNumbering ==
  \A s \in DOMAIN astSymbols :
    (Len(Declarations[s]) > 1 /\ SharedParentDeclaration(s) # None) =>
      /\ constructed[<<"AstSymbol", s>>] = 1
      /\ astSymbols[s].astDeclarations = Declarations[s]
      /\ \A i \in DOMAIN Declarations[s] :
           LET d == Declarations[s][i]
           IN /\ constructed[<<"AstDeclaration", d>>] = 1
              /\ astDeclarations[d].astSymbol = s
              /\ astDeclarations[d].parent = SharedParentDeclaration(s)
              /\ \A member \in {ScopeMembers(Table, SharedParentDeclaration(s))[ChildPosition(d)]} :
                   /\ member.name = astSymbols[s].localName
                   /\ member.overloadIndex = i - 1
                   /\ CanonicalReference(member)
                        = GetCanonicalReference(astSymbols[s].localName,
                                                d \in StaticDeclarations, i - 1)
                   /\ s = "foo" =>
                        CanonicalReference(member)
                          = (IF i = 1 THEN "(foo:instance,0)" ELSE "(foo:instance,1)")

\* C22 witness: C was analyzed as a whole, foo owns its two overloads and the
\* static foo declared between them is a member of the same scope, attached
\* after both overloads because the overloads are built together
OverloadNumberingWitness ==
  /\ "foo" \in DOMAIN astSymbols
  /\ astSymbols["foo"].astDeclarations = <<"nFoo1", "nFoo2">>
  /\ "nC" \in DOMAIN astDeclarations
  /\ astDeclarations["nC"].children = <<"nFoo1", "nFoo2", "nFooStatic">>
  /\ ScopeMembers(Table, "nC")
       = << [name |-> "foo", isStatic |-> FALSE, overloadIndex |-> 0],
            [name |-> "foo", isStatic |-> FALSE, overloadIndex |-> 1],
            [name |-> "foo", isStatic |-> TRUE,  overloadIndex |-> 0] >>

\* the concatenation, in order, of the text of the tokens at the indices
\* startIndex <= i < endIndex
RECURSIVE WindowText(_, _, _)
WindowText(tokens, startIndex, endIndex) ==
  IF startIndex >= endIndex THEN <<>>
  ELSE tokens[startIndex + 1].text \o WindowText(tokens, startIndex + 1, endIndex)

RangeWithin(tokens, tokenRange) ==
  /\ 0 <= tokenRange.startIndex
  /\ tokenRange.startIndex <= tokenRange.endIndex
  /\ tokenRange.endIndex <= Len(tokens)

\* C23: the text of an Excerpt whose range lies within the token sequence is
\* the concatenation of the tokens of the half-open window, at the first read,
\* at every later read and in the cache
ExcerptTextIsWindow ==
  \A name \in DOMAIN excerpts :
    RangeWithin(excerptTokens, excerpts[name].tokenRange) =>
      LET window == WindowText(excerptTokens, excerpts[name].tokenRange.startIndex,
                               excerpts[name].tokenRange.endIndex)
      IN /\ Text(excerptTokens, excerpts[name]).text = window
         /\ excerpts[name].text.defined => excerpts[name].text.value = window
         /\ lastText.excerpt = name => lastText.text = window

\* C23 witness: a read returned the text of a window that leaves out the first
\* of three tokens and ends before the last
ExcerptTextIsWindowWitness ==
  /\ Len(excerptTokens) = 3
  /\ lastText.excerpt = "returnType"
  /\ excerpts["returnType"].tokenRange = [startIndex |-> 1, endIndex |-> 2]
  /\ lastText.text = excerptTokens[2].text
  /\ sourceText = <<"a", "b", "a">>

\* C24: the Excerpt over the full range [0, tokenCount) has exactly the
\* captured source text of the declaration as its text
ExcerptRoundTrip ==
  \A name \in DOMAIN excerpts :
    excerpts[name].tokenRange = [startIndex |-> 0, endIndex |-> Len(excerptTokens)] =>
      /\ Text(excerptTokens, excerpts[name]).text = sourceText
      /\ lastText.excerpt = name => lastText.text = sourceText

\* C24 witness: the text of the declaration's Excerpt was read from more than
\* one token and is the source text
ExcerptRoundTripWitness ==
  /\ Len(excerptTokens) >= 2
  /\ Len(excerptTokens) < Len(sourceText)
  /\ lastText.excerpt = "declaration"
  /\ lastText.text = sourceText

\* a step leaves the tokens and the ranges alone, evaluates the concatenation
\* of an Excerpt only when its text was never read, and a read of a cached text
\* returns the cached string
MemoizedStep ==
  /\ excerptTokens' = excerptTokens
  /\ DOMAIN excerpts' = DOMAIN excerpts
  /\ \A name \in DOMAIN excerpts :
       /\ excerpts'[name].tokenRange = excerpts[name].tokenRange
       /\ excerpts[name].accesses >= 1 =>
            /\ excerpts[name].text.defined
            /\ excerpts'[name].text = excerpts[name].text
            /\ excerpts'[name].computations = excerpts[name].computations
            /\ (excerpts'[name].accesses > excerpts[name].accesses =>
                  lastText' = [excerpt |-> name, text |-> excerpts[name].text.value])
       /\ excerpts[name].accesses = 0 =>
            /\ excerpts[name].computations = 0
            /\ excerpts'[name].computations = excerpts'[name].accesses

\* C25: Excerpt.text is pure memoization: computed at the first read only,
\* every later read returns the string of the first, and no read changes the
\* token sequence or a token range
ExcerptTextMemoized == [][MemoizedStep]_vars

\* C25 witness: the text of an Excerpt has been read twice and computed once
ExcerptTextMemoizedWitness ==
  \E name \in DOMAIN excerpts :
    /\ excerpts[name].accesses = 2
    /\ excerpts[name].computations = 1
    /\ lastText.excerpt = name
    /\ lastText.text = excerpts[name].text.value
    /\ lastText.text # <<>>

\* a symbol the table would have to construct: it passes the filter and no
\* lookup finds it
IsToBeConstructed(symbol) ==
  /\ ~Discarded(symbol)
  /\ FollowedOf(symbol) \notin DOMAIN astSymbolsBySymbol
  /\ ImportKeyOf(symbol) \notin DOMAIN astSymbolsByImportKey
  /\ Len(Declarations[FollowedOf(symbol)]) >= 1

\* a followed symbol that is not nominal and has a declaration of a kind that
\* is not graph-relevant
HasUnsupportedDeclaration(followedSymbol) ==
  /\ ~IsNominal(followedSymbol)
  /\ \E i \in DOMAIN Declarations[followedSymbol] :
       ~IsAstDeclaration(Node[Declarations[followedSymbol][i]].kind)

\* no table holds anything for the followed symbol
RegisteredNowhere(t, followedSymbol) ==
  /\ followedSymbol \notin DOMAIN t.astSymbols
  /\ followedSymbol \notin DOMAIN t.astSymbolsBySymbol
  /\ \A k \in DOMAIN t.astSymbolsByImportKey : t.astSymbolsByImportKey[k] # followedSymbol
  /\ \A i \in DOMAIN Declarations[followedSymbol] :
       /\ Declarations[followedSymbol][i] \notin DOMAIN t.astDeclarations
       /\ Declarations[followedSymbol][i] \notin DOMAIN t.astDeclarationsByDeclaration
  /\ \A k \in DOMAIN t.constructed : k[2] # followedSymbol

\* C30: resolving a symbol that is to be constructed, is not nominal and has a
\* declaration of a kind that is not graph-relevant raises the fatal error and
\* leaves every table without an entry for the symbol; no reachable table
\* holds an entry for such a symbol
UnsupportedConstructFatal ==
  /\ \A followedSymbol \in FollowedSymbols :
       (HasUnsupportedDeclaration(followedSymbol) /\ followedSymbol \notin DOMAIN astSymbolsBySymbol)
         => RegisteredNowhere(Table, followedSymbol)
  /\ \A symbol \in Symbols : \A addIfMissing \in BOOLEAN :
       (IsToBeConstructed(symbol) /\ HasUnsupportedDeclaration(FollowedOf(symbol))) =>
         \A r \in {FetchAstSymbol(Table, symbol, addIfMissing)} :
           /\ r.err = "uses a construct which may be an unimplemented language feature"
           /\ r.res = None
           /\ RegisteredNowhere(r.t, FollowedOf(symbol))
  /\ (last.call = "tryGetAstSymbol" /\ HasUnsupportedDeclaration(FollowedOf(last.arg))
        /\ ~Discarded(last.arg))
       => /\ last.err = "uses a construct which may be an unimplemented language feature"
          /\ RegisteredNowhere(Table, FollowedOf(last.arg))

\* C30 witness: the accessor U was requested after the package was analyzed,
\* the request failed and the tables hold nothing for U
UnsupportedConstructFatalWitness ==
  /\ last.call = "tryGetAstSymbol"
  /\ last.arg = "U"
  /\ last.err = "uses a construct which may be an unimplemented language feature"
  /\ "C" \in DOMAIN astSymbols
  /\ RegisteredNowhere(Table, "U")

\* String.prototype.toLowerCase, for the characters of the paths
LowerCaseOf == [P |-> "p", Q |-> "q", D |-> "d", T |-> "t", S |-> "s"]

ToLowerCase(string) ==
  [i \in DOMAIN string |->
     IF string[i] \in DOMAIN LowerCaseOf THEN LowerCaseOf[string[i]] ELSE string[i]]

EqualIgnoringCase(a, b) == ToLowerCase(a) = ToLowerCase(b)

EndsWithDts(filePath) ==
  /\ Len(filePath) >= 5
  /\ EqualIgnoringCase(SubSeq(filePath, Len(filePath) - 4, Len(filePath)),
                       <<".", "d", ".", "t", "s">>)

\* the i-th input path is a declaration file and no earlier input path equals
\* it ignoring case
IsFirstDeclarationFileOccurrence(i) ==
  /\ EndsWithDts(inputFilePaths[i])
  /\ \A j \in 1..(i - 1) : ~EqualIgnoringCase(inputFilePaths[j], inputFilePaths[i])

\* the input paths selected by IsFirstDeclarationFileOccurrence, from the i-th on
RECURSIVE FirstDeclarationFileOccurrences(_)
FirstDeclarationFileOccurrences(i) ==
  IF i > Len(inputFilePaths) THEN <<>>
  ELSE (IF IsFirstDeclarationFileOccurrence(i) THEN <<inputFilePaths[i]>> ELSE <<>>)
         \o FirstDeclarationFileOccurrences(i + 1)

\* C29: given absolute paths, generateFilePathsForAnalysis returns, in input
\* order, exactly the paths that are the first occurrence ignoring case of a
\* path ending in .d.ts ignoring case; no two returned paths are equal
\* ignoring case
DeclarationFilesDeduplicated ==
  (analysisFilePaths.called /\ \A i \in DOMAIN inputFilePaths : IsAbsolute(inputFilePaths[i]))
    => /\ analysisFilePaths.err = None
       /\ analysisFilePaths.paths = FirstDeclarationFileOccurrences(1)
       /\ \A i, j \in DOMAIN analysisFilePaths.paths :
            i # j => ~EqualIgnoringCase(analysisFilePaths.paths[i], analysisFilePaths.paths[j])
       /\ \A i \in DOMAIN analysisFilePaths.paths : EndsWithDts(analysisFilePaths.paths[i])

\* C29 witness: of /P.D.TS, /p.ts and /p.d.ts the call returned /P.D.TS alone
DeclarationFilesDeduplicatedWitness ==
  /\ inputFilePaths = << <<"/", "P", ".", "D", ".", "T", "S">>,
                         <<"/", "p", ".", "t", "s">>,
                         <<"/", "p", ".", "d", ".", "t", "s">> >>
  /\ analysisFilePaths = [called |-> TRUE, err |-> None,
                          paths |-> << <<"/", "P", ".", "D", ".", "T", "S">> >>]

\* the declarations retained in the rollup written to a publish folder
RetainedIn(folder) == files[folder].retained

\* C26: the internal rollup of one analyzed graph retains every item the beta
\* rollup retains, and the beta rollup every item the public rollup retains
TrimmingMonotonic ==
  {"publishFolderForInternal", "publishFolderForBeta", "publishFolderForPublic"}
    \subseteq DOMAIN files
    => /\ RetainedIn("publishFolderForPublic") \subseteq RetainedIn("publishFolderForBeta")
       /\ RetainedIn("publishFolderForBeta") \subseteq RetainedIn("publishFolderForInternal")

\* C26 witness: the three rollups were written in one run and each retains
\* more than the next: the class is beta, one overload of foo internal
TrimmingMonotonicWitness ==
  /\ outcome.status = "returned"
  /\ {"publishFolderForInternal", "publishFolderForBeta", "publishFolderForPublic"}
       \subseteq outcome.written
  /\ "nNS1" \in RetainedIn("publishFolderForPublic")
  /\ "nC" \in RetainedIn("publishFolderForBeta") \ RetainedIn("publishFolderForPublic")
  /\ "nFoo1" \in RetainedIn("publishFolderForBeta")
  /\ "nFoo2" \in RetainedIn("publishFolderForInternal") \ RetainedIn("publishFolderForBeta")

\* C27: processProject returns true exactly when the run logged no error, in a
\* local build, and neither an error nor a warning, in any other build
ProcessProjectResult ==
  outcome.status = "returned" =>
    (outcome.result <=>
       IF extractorConfig.localBuild THEN outcome.errors = 0
       ELSE outcome.errors + outcome.warnings = 0)

\* C27 witness: the second run of a local build logged a warning and no error
\* and returned true
ProcessProjectResultWitness ==
  /\ runs = 2
  /\ outcome.status = "returned"
  /\ extractorConfig.localBuild
  /\ outcome.warnings = 1
  /\ outcome.errors = 0
  /\ outcome.result

\* C28: an error raised while the graph of the entry point is built leaves
\* processProject as that error: the method returns nothing, the logger counts
\* only what the analysis reported, and no file is written
GraphErrorAborts ==
  (outcome.status # "none" /\ outcome.entryPointSourceFile \in DOMAIN GraphOf) =>
    \A r \in {GraphOf[outcome.entryPointSourceFile]} :
      r.err # None =>
        /\ outcome.status = "threw"
        /\ outcome.err = r.err
        /\ ~outcome.result
        /\ outcome.written = {}
        /\ \E errors, warnings \in 0..MaxDiagnostics :
             /\ outcome.errors = errors /\ monitoredLogger.errorCount = errors
             /\ outcome.warnings = warnings /\ monitoredLogger.warningCount = warnings

\* C28 witness: a run on the second entry point met the import conflict of
\* Base and threw it, with nothing logged and nothing written
GraphErrorAbortsWitness ==
  /\ outcome.status = "threw"
  /\ outcome.entryPointSourceFile = "modOther"
  /\ outcome.err = "is being imported after it was already registered as non-imported"
  /\ monitoredLogger = [errorCount |-> 0, warningCount |-> 0]
  /\ outcome.written = {}
  /\ files = Empty

\* the followed symbol has exactly one declaration and it is a whole source module
IsSingleSourceModule(followedSymbol) ==
  /\ Len(Declarations[followedSymbol]) = 1
  /\ \A i \in DOMAIN Declarations[followedSymbol] :
       Node[Declarations[followedSymbol][i]].kind = "SourceFile"

\* the source file of the first declaration belongs to an external package
\* without documentation support
IsFromUndocumentedPackage(followedSymbol) ==
  /\ IsSourceFileFromExternalLibrary(GetSourceFile(Head(Declarations[followedSymbol])))
  /\ ~IsAedocSupportedFor(GetSourceFile(Head(Declarations[followedSymbol])))

\* C31: an AstSymbol is nominal if and only if its followed symbol has exactly
\* one declaration that is a whole source module, or the source file of its
\* first declaration belongs to an external package without documentation
\* support
NominalIffOpaque ==
  \A s \in DOMAIN astSymbols :
    astSymbols[s].nominal <=> (IsSingleSourceModule(s) \/ IsFromUndocumentedPackage(s))

\* C31 witness: the table holds the module semver and the merged interface Ext,
\* both nominal, and the class Widget of a documented library, not nominal
NominalIffOpaqueWitness ==
  /\ {"SV", "Ext", "W1"} \subseteq DOMAIN astSymbols
  /\ astSymbols["SV"].nominal /\ IsSingleSourceModule("SV") /\ ~IsFromUndocumentedPackage("SV")
  /\ astSymbols["Ext"].nominal /\ ~IsSingleSourceModule("Ext")
  /\ ~astSymbols["W1"].nominal

\* C32: no resolution ends with the error of a parent declaration, or of a
\* parent AstDeclaration, that is missing when a symbol's declarations are built
MissingParentNeverRaised ==
  last.err \notin {"Missing parent declaration", "Missing parent AstDeclaration"}

\* the AstSymbols the table hands out: the values of _astSymbolsBySymbol
RegisteredAstSymbols == {astSymbolsBySymbol[symbol] : symbol \in DOMAIN astSymbolsBySymbol}

\* astSymbol owns one AstDeclaration per declaration node of its followed symbol,
\* each being the entry of _astDeclarationsByDeclaration for its node
OwnsItsDeclarations(astSymbol) ==
  LET owned == astSymbols[astSymbol].astDeclarations
      declarations == Declarations[astSymbols[astSymbol].followedSymbol]
  IN /\ Len(owned) >= 1
     /\ owned = declarations
     /\ \A i \in DOMAIN owned :
          /\ Get(astDeclarationsByDeclaration, owned[i]) = owned[i]
          /\ astDeclarations[owned[i]].astSymbol = astSymbol

\* C33: in every reachable state, also after a call that threw, every registered
\* AstSymbol owns exactly one AstDeclaration per declaration node of its followed
\* symbol, at least one, each registered in the declaration table under its node
RegisteredSymbolsOwnDeclarations ==
  \A astSymbol \in RegisteredAstSymbols : OwnsItsDeclarations(astSymbol)

\* a call that returns leaves every registered AstSymbol with its declarations,
\* provided they all had them before the call
OwnedDeclarationsKept ==
  (RegisteredSymbolsOwnDeclarations /\ last'.err = None) => RegisteredSymbolsOwnDeclarations'

\* C33 (amended): as long as no call has thrown, every registered AstSymbol owns
\* exactly one AstDeclaration per declaration node of its followed symbol, at
\* least one, each registered in the declaration table under its node
RegisteredSymbolsOwnDeclarationsUnlessThrown == [][OwnedDeclarationsKept]_vars
                                                /\ RegisteredSymbolsOwnDeclarations

RegisteredSymbolsOwnDeclarationsWitness ==
  /\ last.err = None
  /\ RegisteredSymbolsOwnDeclarations
  /\ {"NS", "foo", "C"} \subseteq RegisteredAstSymbols
  /\ Len(astSymbols["NS"].astDeclarations) = 2
  /\ astSymbols["foo"].parentAstSymbol = "C"

\* the AstSymbols the call that led to the next state passed to analyze: the
\* argument of analyze, the exports of the entry point fetched
PassedToAnalyze ==
  IF last'.call = "analyze" THEN {last'.arg}
  ELSE IF last'.call = "fetchEntryPoint"
  THEN {astSymbolsBySymbol'[FollowAliases(ExportsOfModule[last'.arg][i]).followedSymbol] :
          i \in {j \in DOMAIN ExportsOfModule[last'.arg] :
                   FollowAliases(ExportsOfModule[last'.arg][j]).followedSymbol
                     \in DOMAIN astSymbolsBySymbol'}}
  ELSE {}

\* the imported roots, not yet analyzed, that the call only created or referenced
OnlyReferencedImports ==
  {s \in DOMAIN astSymbols' :
     /\ astSymbols'[s].rootAstSymbol = s
     /\ astSymbols'[s].astImport # None
     /\ s \in DOMAIN astSymbols => ~astSymbols[s].analyzed
     /\ \A passed \in PassedToAnalyze : astSymbols'[passed].rootAstSymbol # s}

\* what the walk of a declaration fills in, before the call (nothing when new)
FilledIn(d) ==
  IF d \in DOMAIN astDeclarations
  THEN <<astDeclarations[d].children, astDeclarations[d].referencedAstSymbols>>
  ELSE <<<<>>, <<>>>>

ImportsNotDeepAnalyzedStep ==
  last'.call \in {"analyze", "fetchEntryPoint"} =>
    \A s \in OnlyReferencedImports :
      /\ ~astSymbols'[s].analyzed
      /\ \A i \in DOMAIN astSymbols'[s].astDeclarations :
           LET d == astSymbols'[s].astDeclarations[i]
           IN <<astDeclarations'[d].children, astDeclarations'[d].referencedAstSymbols>>
                = FilledIn(d)

\* C34: a call of analyze or fetchEntryPoint leaves an imported AstSymbol that
\* it only references (neither passed to analyze nor exported) unanalyzed, and
\* adds no child and no reference to its declarations: none, when it created them
ImportsNotDeepAnalyzed == [][ImportsNotDeepAnalyzedStep]_vars

ImportsNotDeepAnalyzedWitness ==
  /\ last.call = "analyze" /\ last.arg = "C" /\ last.err = None
  /\ DOMAIN astEntryPointsBySourceFile = {}
  /\ astSymbols["C"].analyzed
  /\ Contains(astDeclarations["nFoo2"].referencedAstSymbols, "W1")
  /\ astSymbols["W1"].astImport # None
  /\ ~astSymbols["W1"].analyzed
  /\ constructed[<<"AstSymbol", "W1">>] = 1
  /\ astDeclarations["nW1"].children = <<>>
  /\ astDeclarations["nW1"].referencedAstSymbols = <<>>

WalkedOncePerCall ==
  \A rootAstSymbol \in DOMAIN walked' :
    Count(walked', rootAstSymbol) <= Count(walked, rootAstSymbol) + 1

\* C37: a call of analyze (or of fetchEntryPoint, which analyzes the exports)
\* comes to an end on a graph with cyclic references, having walked the
\* declaration tree of each root at most once
AnalyzeWalksRootsOnce == [][WalkedOncePerCall]_vars

\* C and Helper reference each other and foo, a child of C, references C
AnalyzeWalksRootsOnceWitness ==
  /\ last.call = "analyze" /\ last.arg = "C" /\ last.err = None
  /\ Contains(astDeclarations["nFoo1"].referencedAstSymbols, "Helper")
  /\ Contains(astDeclarations["nHelper"].referencedAstSymbols, "C")
  /\ astSymbols["foo"].rootAstSymbol = "C"
  /\ astSymbols["C"].analyzed /\ astSymbols["Helper"].analyzed
  /\ walked["C"] = 1 /\ walked["Helper"] = 1

\* the run recorded in outcome got as far as _generateRollupDtsFiles: the entry
\* point is a declaration file and building its graph threw nothing
ReachedRollupStep ==
  /\ outcome.status # "none"
  /\ IsDeclarationFile(EntryPointFileName[outcome.entryPointSourceFile])
  /\ GraphOf[outcome.entryPointSourceFile].err = None

\* the publish folder that the "typings" file must be under
ApplicablePublishFolder(config) ==
  IF config.dtsRollup.trimming THEN "publishFolderForInternal" ELSE "publishFolder"

\* the rollup is enabled and its output path is absolute, or is not specified
\* while package.json gives no usable "typings"
IsInvalidRollupPath(config) ==
  /\ config.dtsRollup.enabled
  /\ \/ config.dtsRollup.mainDtsRollupPath = "/index.d.ts"
     \/ /\ config.dtsRollup.mainDtsRollupPath = ""
        /\ \/ config.typings = None
           \/ config.typings # ApplicablePublishFolder(config)

AllRollupFolders ==
  {"publishFolder", "publishFolderForPublic", "publishFolderForBeta", "publishFolderForInternal"}

\* C35: with an invalid rollup output path, a run that reaches the rollup step
\* logs exactly one error beyond the diagnostics of the analysis, writes no
\* rollup for any tier, throws nothing and returns false
InvalidRollupPathIsDiagnostic ==
  (ReachedRollupStep /\ IsInvalidRollupPath(extractorConfig)) =>
    /\ outcome.status = "returned"
    /\ outcome.err = None
    /\ outcome.errors = outcome.diagnostics.errors + 1
    /\ monitoredLogger.errorCount = outcome.errors
    /\ outcome.warnings = outcome.diagnostics.warnings
    /\ outcome.written \cap AllRollupFolders = {}
    /\ DOMAIN files \cap AllRollupFolders = {}
    /\ ~outcome.result

InvalidRollupPathIsDiagnosticWitness ==
  /\ ReachedRollupStep
  /\ extractorConfig.dtsRollup.enabled /\ extractorConfig.dtsRollup.trimming
  /\ extractorConfig.dtsRollup.mainDtsRollupPath = ""
  /\ extractorConfig.typings = "publishFolder"
  /\ extractorConfig.localBuild
  /\ outcome.status = "returned"
  /\ outcome.diagnostics = [errors |-> 0, warnings |-> 0]
  /\ outcome.errors = 1
  /\ outcome.written = {"apiJsonFile"}
  /\ ~outcome.result

\* the rollups the run wrote, in the order it wrote them
RollupWrites == SelectSeq(outcome.writes, LAMBDA destination : destination \in AllRollupFolders)

\* C36: a run writes no rollup when dtsRollup is disabled; when it is enabled
\* with a valid path and the run reaches the rollup step, it writes one rollup
\* of the internal kind to publishFolder without trimming, and with trimming
\* three, to publishFolderForPublic, publishFolderForBeta and
\* publishFolderForInternal in this order, of the public, beta and internal
\* kinds, all under the same relative mainDtsRollupPath
RollupFilesPerRun ==
  IF ~extractorConfig.dtsRollup.enabled THEN RollupWrites = <<>>
  ELSE (ReachedRollupStep /\ ~IsInvalidRollupPath(extractorConfig)) =>
         IF ~extractorConfig.dtsRollup.trimming
         THEN /\ RollupWrites = <<"publishFolder">>
              /\ files["publishFolder"].kind = "InternalRelease"
              /\ files["publishFolder"].mainDtsRollupPath # "/index.d.ts"
         ELSE /\ RollupWrites = <<"publishFolderForPublic", "publishFolderForBeta",
                                  "publishFolderForInternal">>
              /\ files["publishFolderForPublic"].kind = "PublicRelease"
              /\ files["publishFolderForBeta"].kind = "BetaRelease"
              /\ files["publishFolderForInternal"].kind = "InternalRelease"
              /\ \A folder \in {"publishFolderForPublic", "publishFolderForBeta"} :
                   files[folder].mainDtsRollupPath
                     = files["publishFolderForInternal"].mainDtsRollupPath
              /\ files["publishFolderForInternal"].mainDtsRollupPath # "/index.d.ts"

RollupFilesPerRunWitness ==
  /\ ReachedRollupStep
  /\ extractorConfig.dtsRollup.enabled /\ extractorConfig.dtsRollup.trimming
  /\ extractorConfig.dtsRollup.mainDtsRollupPath = "index.d.ts"
  /\ extractorConfig.apiJsonFile.enabled
  /\ outcome.status = "returned"
  /\ outcome.writes = <<"apiJsonFile", "publishFolderForPublic", "publishFolderForBeta",
                        "publishFolderForInternal">>
  /\ files["publishFolderForPublic"].mainDtsRollupPath = "index.d.ts"

\* C38: the counters that decide the result of a call count only what that call
\* logged, whatever the calls before it left in them: a call that logs no error
\* and no warning returns true
ResultDependsOnThisCallOnly ==
  outcome.status = "returned" =>
    /\ monitoredLogger.errorCount = outcome.errors
    /\ monitoredLogger.warningCount = outcome.warnings
    /\ (outcome.errors = 0 /\ outcome.warnings = 0) => outcome.result

\* the second call logs nothing and returns true after a first call that logged
\* an error and a warning
ResultDependsOnThisCallOnlyWitness ==
  /\ runs = 2
  /\ outcome.countersBefore = [errorCount |-> 1, warningCount |-> 1]
  /\ outcome.status = "returned"
  /\ outcome.errors = 0 /\ outcome.warnings = 0
  /\ monitoredLogger = [errorCount |-> 0, warningCount |-> 0]
  /\ outcome.result

====
